---- MODULE Spec2Model ----
(***************************************************************************)
(* Fix locator and patch application engine (src/src/apply/applyFix.ts).   *)
(*                                                                         *)
(* Texts are sequences of one-character strings.  A document is the        *)
(* editor's text buffer: its lines (without line terminators) and its      *)
(* end-of-line sequence.  Line and column numbers of ranges are 0-based,   *)
(* the startLine/endLine of a fix are 1-based, as in the source.           *)
(***************************************************************************)
EXTENDS Integers, Sequences, FiniteSets, TLC

LF == "\n"
CR == "\r"
SP == " "

Max(a, b) == IF a >= b THEN a ELSE b
Min(a, b) == IF a <= b THEN a ELSE b
Abs(a) == IF a >= 0 THEN a ELSE 0 - a

(***************************************************************************)
(* String primitives of the language runtime.                              *)
(***************************************************************************)

\* String.prototype.trimEnd: white space and line terminators are stripped.
IsSpace(c) == c \in {SP, "\t", CR, LF}

trimEnd(s) ==
  LET keep == {i \in 1..Len(s) : ~IsSpace(s[i])}
      last == IF keep = {} THEN 0 ELSE CHOOSE i \in keep : \A j \in keep : j <= i
  IN SubSeq(s, 1, last)

\* String.prototype.indexOf(pat, from): the lowest 0-based offset >= from at
\* which pat occurs, or -1.
Occurs(t, pat, i) == i >= 0 /\ i + Len(pat) <= Len(t) /\ SubSeq(t, i + 1, i + Len(pat)) = pat

indexOf(t, pat, from) ==
  LET hits == {i \in Max(0, from)..(Len(t) - Len(pat)) : Occurs(t, pat, i)}
  IN IF pat = <<>> THEN Min(Max(0, from), Len(t))
     ELSE IF hits = {} THEN -1
     ELSE CHOOSE i \in hits : \A j \in hits : i <= j

\* String.prototype.split("\n"), by halving so that long texts need no deep
\* recursion: the pieces of the two halves, the piece around the cut glued.
RECURSIVE splitLF(_)
splitLF(t) ==
  IF Len(t) = 0 THEN << <<>> >>
  ELSE IF Len(t) = 1 THEN (IF t[1] = LF THEN << <<>>, <<>> >> ELSE <<t>>)
  ELSE LET m == Len(t) \div 2
           L == splitLF(SubSeq(t, 1, m))
           R == splitLF(SubSeq(t, m + 1, Len(t)))
       IN SubSeq(L, 1, Len(L) - 1) \o << L[Len(L)] \o R[1] >> \o Tail(R)

\* String.prototype.split(/\r?\n/): as split("\n"), and a CR right before the
\* LF belongs to the separator.
splitLines(t) ==
  LET dropCR(p) ==
        [k \in 1..Len(p) |->
           IF k < Len(p) /\ Len(p[k]) > 0 /\ p[k][Len(p[k])] = CR
           THEN SubSeq(p[k], 1, Len(p[k]) - 1)
           ELSE p[k]]
  IN dropCR(splitLF(t))

\* Array.prototype.join(sep) over lines lo..hi, by halving.
RECURSIVE joinRange(_, _, _, _)
joinRange(ls, lo, hi, sep) ==
  IF lo > hi THEN <<>>
  ELSE IF lo = hi THEN ls[lo]
  ELSE LET m == (lo + hi) \div 2
       IN joinRange(ls, lo, m, sep) \o sep \o joinRange(ls, m + 1, hi, sep)

join(ls, sep) == joinRange(ls, 1, Len(ls), sep)

\* text.replace(/\r\n/g, "\n")
replaceCRLF(t) ==
  LET idx == [i \in 1..Len(t) |-> i]
      kept == SelectSeq(idx, LAMBDA i : ~(t[i] = CR /\ i < Len(t) /\ t[i + 1] = LF))
  IN [k \in 1..Len(kept) |-> t[kept[k]]]

(***************************************************************************)
(* normalizeText, clamp                                                    *)
(***************************************************************************)
normalizeText(text) ==
  LET trimAll(ls) == join([k \in 1..Len(ls) |-> trimEnd(ls[k])], <<LF>>)
  IN trimAll(splitLF(replaceCRLF(text)))

clamp(n, lo, hi) == Max(lo, Min(hi, n))

(***************************************************************************)
(* The editor's TextDocument.                                              *)
(***************************************************************************)
EolLF == <<LF>>
EolCRLF == <<CR, LF>>

\* new vscode.Range(start, end): the two positions are swapped when start is
\* after end
Range(sl, sc, el, ec) ==
  IF sl < el \/ (sl = el /\ sc <= ec)
  THEN [startLine |-> sl, startCol |-> sc, endLine |-> el, endCol |-> ec]
  ELSE [startLine |-> el, startCol |-> ec, endLine |-> sl, endCol |-> sc]

lineCount(doc) == Len(doc.lines)

\* doc.lineAt(i).text, i 0-based
lineAt(doc, i) == doc.lines[i + 1]

\* doc.getText()
getText(doc) == join(doc.lines, doc.eol)

\* doc.validateRange: a position beyond the buffer is moved to the nearest
\* position inside it.
validateRange(doc, r) ==
  LET col(line, l, c) == IF line > l THEN Len(lineAt(doc, l)) ELSE clamp(c, 0, Len(lineAt(doc, l)))
      valid(sl, el) == Range(sl, col(r.startLine, sl, r.startCol), el, col(r.endLine, el, r.endCol))
  IN valid(clamp(r.startLine, 0, lineCount(doc) - 1), clamp(r.endLine, 0, lineCount(doc) - 1))

\* doc.getText(range)
getTextRange(doc, range) ==
  LET textOf(r) ==
        IF r.startLine = r.endLine
        THEN SubSeq(lineAt(doc, r.startLine), r.startCol + 1, r.endCol)
        ELSE LET first == SubSeq(lineAt(doc, r.startLine), r.startCol + 1, Len(lineAt(doc, r.startLine)))
                 last == SubSeq(lineAt(doc, r.endLine), 1, r.endCol)
                 mid == joinRange(doc.lines, r.startLine + 2, r.endLine, doc.eol)
             IN IF r.endLine = r.startLine + 1
                THEN first \o doc.eol \o last
                ELSE first \o doc.eol \o mid \o doc.eol \o last
  IN textOf(validateRange(doc, range))

\* The buffer after one replace edit: the text before the range, the new
\* text and the text after the range, split again into lines.
replaceRange(doc, range, text) ==
  LET edited(r) ==
        LET before == SubSeq(lineAt(doc, r.startLine), 1, r.startCol)
            after == SubSeq(lineAt(doc, r.endLine), r.endCol + 1, Len(lineAt(doc, r.endLine)))
            mid == splitLines(before \o text \o after)
        IN [doc EXCEPT !.lines = SubSeq(doc.lines, 1, r.startLine) \o mid
                                   \o SubSeq(doc.lines, r.endLine + 2, Len(doc.lines))]
  IN edited(validateRange(doc, range))

(***************************************************************************)
(* Range builder and hint arithmetic.                                      *)
(***************************************************************************)
NoHint == [present |-> FALSE, startLine |-> 0, endLine |-> 0]
LineHint(s, e) == [present |-> TRUE, startLine |-> s, endLine |-> e]

NoMatch == [found |-> FALSE]
Match(r, text) == [found |-> TRUE, range |-> r, matchedText |-> text]

\* buildRangeFromIndex with the start column forgotten
buildRangeFromIndexNoColumn(docText, idx, snippet) ==
  LET build(lines, matchLines) ==
        Range(Len(lines) - 1, 0, Len(lines) - 1 + Len(matchLines) - 1,
              Len(matchLines[Len(matchLines)]))
  IN build(splitLines(SubSeq(docText, 1, idx)), splitLines(snippet))

\* buildRangeFromIndex with the end column always counted from the start column
buildRangeFromIndexSameLine(docText, idx, snippet) ==
  LET build(lines, matchLines) ==
        LET startLine == Len(lines) - 1
            startCol == Len(lines[Len(lines)])
            endLine == startLine + Len(matchLines) - 1
            endCol == startCol + Len(matchLines[Len(matchLines)])
        IN Range(startLine, startCol, endLine, endCol)
  IN build(splitLines(SubSeq(docText, 1, idx)), splitLines(snippet))

buildRangeFromIndex(docText, idx, snippet) ==
  LET build(lines, matchLines) ==
        LET startLine == Len(lines) - 1
            startCol == Len(lines[Len(lines)])
            endLine == startLine + Len(matchLines) - 1
            endCol == IF Len(matchLines) = 1
                      THEN startCol + Len(matchLines[1])
                      ELSE Len(matchLines[Len(matchLines)])
        IN Range(startLine, startCol, endLine, endCol)
  IN build(splitLines(SubSeq(docText, 1, idx)), splitLines(snippet))

\* isWithinTolerance accepting every range
isWithinToleranceAnywhere(range, expectedStartLine, expectedEndLine, toleranceLines) == TRUE

isWithinTolerance(range, expectedStartLine, expectedEndLine, toleranceLines) ==
  LET minExpected == Max(0, expectedStartLine - 1 - toleranceLines)
      maxExpected == expectedEndLine - 1 + toleranceLines
  IN range.startLine <= maxExpected /\ range.endLine >= minExpected

\* Twice the distance of the source (the midpoints are halves): the order of
\* two distances is the order of their doubles.
distanceFromExpected(range, expectedStartLine, expectedEndLine) ==
  Abs((range.startLine + range.endLine) - (expectedStartLine - 1 + expectedEndLine - 1))

\* closestMatch taking the last of the matches at the least distance
closestMatchLast(ms, hint) ==
  LET d(k) == distanceFromExpected(ms[k].range, hint.startLine, hint.endLine)
      k0 == CHOOSE k \in 1..Len(ms) :
              /\ \A j \in 1..Len(ms) : d(k) <= d(j)
              /\ \A j \in (k + 1)..Len(ms) : d(j) > d(k)
  IN ms[k0]

\* validMatches.sort(by distance)[0]: the sort is stable, so the first of the
\* matches at the least distance.
closestMatch(ms, hint) ==
  LET d(k) == distanceFromExpected(ms[k].range, hint.startLine, hint.endLine)
      k0 == CHOOSE k \in 1..Len(ms) :
              /\ \A j \in 1..Len(ms) : d(k) <= d(j)
              /\ \A j \in 1..(k - 1) : d(j) > d(k)
  IN ms[k0]

\* filter by tolerance, then the closest; null when none is within tolerance
\* selectByHint falling back to the nearest match outside the tolerance
selectByHintNearest(ms, hint, toleranceLines) ==
  LET validMatches ==
        SelectSeq(ms, LAMBDA m : isWithinTolerance(m.range, hint.startLine, hint.endLine, toleranceLines))
  IN IF Len(validMatches) > 0 THEN closestMatch(validMatches, hint) ELSE closestMatch(ms, hint)

selectByHint(ms, hint, toleranceLines) ==
  LET validMatches ==
        SelectSeq(ms, LAMBDA m : isWithinTolerance(m.range, hint.startLine, hint.endLine, toleranceLines))
  IN IF Len(validMatches) > 0 THEN closestMatch(validMatches, hint) ELSE NoMatch

(***************************************************************************)
(* findSnippetInDocument: global exact matching, then normalized matching. *)
(***************************************************************************)
ToleranceLines == 50

\* the while loop over indexOf: every offset of a literal occurrence
\* collectExact resuming the search after the end of each occurrence
RECURSIVE collectExactPastMatch(_, _, _)
collectExactPastMatch(docText, snippet, idx) ==
  IF idx = -1 THEN <<>>
  ELSE <<idx>> \o collectExactPastMatch(docText, snippet,
                                         indexOf(docText, snippet, idx + Len(snippet)))

RECURSIVE collectExact(_, _, _)
collectExact(docText, snippet, idx) ==
  IF idx = -1 THEN <<>>
  ELSE <<idx>> \o collectExact(docText, snippet, indexOf(docText, snippet, idx + 1))

exactMatches(docText, snippet) ==
  LET matchesAt(offs) ==
        [k \in 1..Len(offs) |-> Match(buildRangeFromIndex(docText, offs[k], snippet), snippet)]
  IN matchesAt(collectExact(docText, snippet, indexOf(docText, snippet, 0)))

\* normalizedMatches with ranges that stop before the trailing whitespace of
\* the last line
normalizedMatchesTrimmed(doc, snippet) ==
  LET windows(docLines, normalizedSnippet, n) ==
        LET starts == [i \in 1..Max(0, Len(docLines) - n + 1) |-> i - 1]
            hit(startLine) ==
              join([k \in 1..n |-> trimEnd(docLines[startLine + k])], <<LF>>) = normalizedSnippet
            matchAt(range) == Match(range, getTextRange(doc, range))
            matchesAt(hits) ==
              [k \in 1..Len(hits) |->
                 matchAt(Range(hits[k], 0, hits[k] + n - 1, Len(trimEnd(docLines[hits[k] + n]))))]
        IN matchesAt(SelectSeq(starts, hit))
      snippetLines(normalizedSnippet) ==
        windows(splitLines(getText(doc)), normalizedSnippet, Len(splitLF(normalizedSnippet)))
  IN snippetLines(normalizeText(snippet))

normalizedMatches(doc, snippet) ==
  LET windows(docLines, normalizedSnippet, n) ==
        LET starts == [i \in 1..Max(0, Len(docLines) - n + 1) |-> i - 1]
            hit(startLine) ==
              join([k \in 1..n |-> trimEnd(docLines[startLine + k])], <<LF>>) = normalizedSnippet
            matchAt(range) == Match(range, getTextRange(doc, range))
            matchesAt(hits) ==
              [k \in 1..Len(hits) |->
                 matchAt(Range(hits[k], 0, hits[k] + n - 1, Len(docLines[hits[k] + n])))]
        IN matchesAt(SelectSeq(starts, hit))
      snippetLines(normalizedSnippet) ==
        windows(splitLines(getText(doc)), normalizedSnippet, Len(splitLF(normalizedSnippet)))
  IN snippetLines(normalizeText(snippet))

\* which of the two strategies of findSnippetInDocument decides the result
usesNormalized(doc, snippet) == Len(exactMatches(getText(doc), snippet)) = 0

findSnippetInDocument(doc, expectedSnippet, hint) ==
  LET toleranceLines == ToleranceLines
      pick(matches) ==
        IF hint.present THEN selectByHint(matches, hint, toleranceLines) ELSE matches[1]
      normalized(docText, found) ==
        IF indexOf(normalizeText(docText), normalizeText(expectedSnippet), 0) = -1 THEN NoMatch
        ELSE IF Len(found) = 0 THEN NoMatch
        ELSE pick(found)
      find(docText, matches) ==
        IF Len(matches) > 0 THEN pick(matches)
        ELSE normalized(docText, normalizedMatches(doc, expectedSnippet))
      search(docText) == find(docText, exactMatches(docText, expectedSnippet))
  IN search(getText(doc))

(***************************************************************************)
(* findSnippetByLineHint: windowed matching around the declared lines.     *)
(***************************************************************************)
WindowRadius == 100

\* findSnippetByLineHint returning the last matching window instead of the first
findSnippetByLineHintLast(doc, expectedSnippet, startLine, endLine) ==
  LET searchRadius == WindowRadius
      minLine == Max(0, startLine - 1 - searchRadius)
      maxLine == Min(lineCount(doc) - 1, endLine - 1 + searchRadius)
      matchAt(range) == Match(range, getTextRange(doc, range))
      scan(normalizedSnippet, snippetLineCount) ==
        LET candidateEndLine(line) == Min(line + snippetLineCount - 1, lineCount(doc) - 1)
            rangeTo(line, last) == Range(line, 0, last, Len(lineAt(doc, last)))
            rangeAt(line) == rangeTo(line, candidateEndLine(line))
            firstOf(hits) ==
              IF hits = {} THEN NoMatch
              ELSE matchAt(rangeAt(CHOOSE line \in hits : \A l \in hits : line >= l))
        IN firstOf({line \in minLine..(maxLine - snippetLineCount + 1) :
                      normalizeText(getTextRange(doc, rangeAt(line))) = normalizedSnippet})
      search(normalizedSnippet) == scan(normalizedSnippet, Len(splitLF(normalizedSnippet)))
  IN search(normalizeText(expectedSnippet))

findSnippetByLineHint(doc, expectedSnippet, startLine, endLine) ==
  LET searchRadius == WindowRadius
      minLine == Max(0, startLine - 1 - searchRadius)
      maxLine == Min(lineCount(doc) - 1, endLine - 1 + searchRadius)
      matchAt(range) == Match(range, getTextRange(doc, range))
      scan(normalizedSnippet, snippetLineCount) ==
        LET candidateEndLine(line) == Min(line + snippetLineCount - 1, lineCount(doc) - 1)
            rangeTo(line, last) == Range(line, 0, last, Len(lineAt(doc, last)))
            rangeAt(line) == rangeTo(line, candidateEndLine(line))
            firstOf(hits) ==
              IF hits = {} THEN NoMatch
              ELSE matchAt(rangeAt(CHOOSE line \in hits : \A l \in hits : line <= l))
        IN firstOf({line \in minLine..(maxLine - snippetLineCount + 1) :
                      normalizeText(getTextRange(doc, rangeAt(line))) = normalizedSnippet})
      search(normalizedSnippet) == scan(normalizedSnippet, Len(splitLF(normalizedSnippet)))
  IN search(normalizeText(expectedSnippet))

(***************************************************************************)
(* Fuzzy matching near the declared lines.  A score is kept as the         *)
(* numerator of the source's score over 100 * (number of snippet lines).   *)
(***************************************************************************)
FuzzyRadius == 200
BonusPct == 15

computeLineSimilarityScore(expectedLines, candidateLines) ==
  LET n == Len(expectedLines)
      exact == Cardinality({i \in 1..n : expectedLines[i] = candidateLines[i]})
      firstBonus == IF expectedLines[1] = candidateLines[1] THEN BonusPct * n ELSE 0
      lastBonus == IF expectedLines[n] = candidateLines[Len(candidateLines)] THEN BonusPct * n ELSE 0
  IN IF n = 0 \/ n # Len(candidateLines) THEN 0
     ELSE clamp(100 * exact + firstBonus + lastBonus, 0, 100 * n)

\* The code computes base + firstBonus + lastBonus in IEEE doubles, and two
\* windows with the same exact score can get different doubles.  Two different
\* (exact, bonuses) pairs have the same exact score only when 0.15 or 0.30 is a
\* multiple of 1/n, that is for line counts that are multiples of 20 or 10,
\* so only there can the rounding change an ordering.  DoubleUlps is the
\* number of units in the last place by which the computed double lies above
\* the double nearest to the exact score, for the line counts 10 and 20
\* (0.4 + 0.15 + 0.15 is 0.7000000000000001, 7/10 is 0.7).
DoubleUlps(n, exact, bonuses) ==
  IF n = 10 THEN
    IF <<exact, bonuses>> \in {<<4, 2>>, <<8, 1>>} THEN 1
    ELSE IF <<exact, bonuses>> = <<3, 1>> THEN -1
    ELSE 0
  ELSE IF n = 20 THEN
    IF <<exact, bonuses>> \in {<<8, 2>>, <<11, 1>>, <<11, 2>>, <<13, 2>>, <<16, 1>>} THEN 1
    ELSE IF <<exact, bonuses>> \in {<<3, 2>>, <<6, 1>>} THEN -1
    ELSE 0
  ELSE 0

\* the rounding of the score that computeLineSimilarityScore returns
scoreUlps(expectedLines, candidateLines) ==
  LET n == Len(expectedLines)
      exact == Cardinality({i \in 1..n : expectedLines[i] = candidateLines[i]})
      bonuses == (IF expectedLines[1] = candidateLines[1] THEN 1 ELSE 0)
                 + (IF expectedLines[n] = candidateLines[Len(candidateLines)] THEN 1 ELSE 0)
  IN IF n = 0 \/ n # Len(candidateLines) THEN 0 ELSE DoubleUlps(n, exact, bonuses)

\* score > best.score on the doubles
higherScore(cand, best) ==
  cand.score > best.score \/ (cand.score = best.score /\ cand.ulps > best.ulps)

\* minScoreFor with the lowest threshold for the short snippets too
minScoreForShort(snippetLineCount) ==
  IF snippetLineCount <= 6 THEN 65
  ELSE IF snippetLineCount <= 25 THEN 70
  ELSE 65

\* minScoreFor with the threshold of the long snippets for every snippet of
\* more than two lines
minScoreForLow(snippetLineCount) ==
  IF snippetLineCount <= 2 THEN 95
  ELSE IF snippetLineCount <= 25 THEN 70
  ELSE 65

\* the minimum score, in hundredths
minScoreFor(snippetLineCount) ==
  IF snippetLineCount <= 2 THEN 95
  ELSE IF snippetLineCount <= 6 THEN 80
  ELSE IF snippetLineCount <= 25 THEN 70
  ELSE 65

NoBest == [set |-> FALSE, startLine |-> 0, endLine |-> 0, score |-> 0, ulps |-> 0, distance |-> 0]

\* one turn of the loop: the candidate replaces best when there is no best yet,
\* or its score is higher, or the score is equal and it is nearer
betterOf(best, cand) ==
  IF ~cand.set THEN best
  ELSE IF ~best.set \/ higherScore(cand, best)
          \/ (cand.score = best.score /\ cand.ulps = best.ulps /\ cand.distance < best.distance)
  THEN cand
  ELSE best

\* the loop over the candidate lines lo..hi, by halving (betterOf is associative)
RECURSIVE foldBest(_, _, _)
foldBest(cands, lo, hi) ==
  IF lo > hi THEN NoBest
  ELSE IF lo = hi THEN cands[lo]
  ELSE LET m == (lo + hi) \div 2
       IN betterOf(foldBest(cands, lo, m), foldBest(cands, m + 1, hi))

findSnippetFuzzyNearLineHint(doc, expectedSnippet, startLine, endLine) ==
  LET searchRadius == FuzzyRadius
      minLine == Max(0, startLine - 1 - searchRadius)
      maxLine == Min(lineCount(doc) - 1, endLine - 1 + searchRadius)
      scan(expectedLines, snippetLineCount, minScore) ==
        LET scored(line, candidateEndLine, score, ulps) ==
              IF score < minScore * snippetLineCount THEN NoBest
              ELSE [set |-> TRUE, startLine |-> line, endLine |-> candidateEndLine,
                    score |-> score, ulps |-> ulps,
                    distance |-> Abs((line + candidateEndLine) - (startLine - 1 + endLine - 1))]
            cand(line) ==
              scored(line, Min(line + snippetLineCount - 1, lineCount(doc) - 1),
                     computeLineSimilarityScore(expectedLines,
                       [i \in 1..snippetLineCount |-> trimEnd(lineAt(doc, line + i - 1))]),
                     scoreUlps(expectedLines,
                       [i \in 1..snippetLineCount |-> trimEnd(lineAt(doc, line + i - 1))]))
            matchAt(range, score) ==
              [found |-> TRUE, range |-> range, matchedText |-> getTextRange(doc, range),
               score |-> score]
            result(best) ==
              IF snippetLineCount = 0 \/ ~best.set THEN NoMatch
              ELSE matchAt(Range(best.startLine, 0, best.endLine, Len(lineAt(doc, best.endLine))),
                           best.score)
            loop(lastLine) ==
              result(foldBest([line \in minLine..lastLine |-> cand(line)], minLine, lastLine))
        IN loop(maxLine - snippetLineCount + 1)
      search(expectedLines) == scan(expectedLines, Len(expectedLines), minScoreFor(Len(expectedLines)))
  IN search(splitLF(normalizeText(expectedSnippet)))

(***************************************************************************)
(* Already-applied detection.                                              *)
(***************************************************************************)
AppliedRadius == 200

\* hasReplacementAlreadyApplied looking for the normalized replacement in the
\* whole document whatever the hint
hasReplacementAlreadyAppliedAnywhere(doc, replacement, hint) ==
  LET check(docText, normalizedReplacement) ==
        IF Len(replacement) = 0 THEN FALSE
        ELSE IF indexOf(docText, replacement, 0) # -1 THEN TRUE
        ELSE IF Len(normalizedReplacement) = 0 THEN FALSE
        ELSE indexOf(normalizeText(docText), normalizedReplacement, 0) # -1
  IN check(getText(doc), normalizeText(replacement))

hasReplacementAlreadyApplied(doc, replacement, hint) ==
  LET searchRadius == AppliedRadius
      windowText(minLine, maxLine) ==
        getTextRange(doc, Range(minLine, 0, maxLine, Len(lineAt(doc, maxLine))))
      check(docText, normalizedReplacement) ==
        IF Len(replacement) = 0 THEN FALSE
        ELSE IF indexOf(docText, replacement, 0) # -1 THEN TRUE
        ELSE IF Len(normalizedReplacement) = 0 THEN FALSE
        ELSE IF ~hint.present
        THEN indexOf(normalizeText(docText), normalizedReplacement, 0) # -1
        ELSE indexOf(normalizeText(windowText(Max(0, hint.startLine - 1 - searchRadius),
                                              Min(lineCount(doc) - 1,
                                                  hint.endLine - 1 + searchRadius))),
                     normalizedReplacement, 0) # -1
  IN check(getText(doc), normalizeText(replacement))

(***************************************************************************)
(* applyFix and canApplyFix up to their first edit: what the synchronous   *)
(* code between the resolution of openTextDocument and the call of         *)
(* applyEdit (or the return) decides.                                      *)
(***************************************************************************)
ReasonNone == "none"
ReasonOpen == "Unable to open file"
ReasonRejected == "VS Code rejected the edit."
ReasonAlready == "Fix appears to already be applied."
ReasonNotFound == "Could not find the original code snippet in the file."
ReasonBounds == "Line range exceeds file length"
ErrNoWorkspace == "No workspace folder is open."
ErrShow == "showTextDocument failed"

NoRange == Range(0, 0, 0, 0)

\* JavaScript truthiness of fix.expectedOriginalSnippet: null and "" are false
\* hasSnippet taking a snippet of blanks only for an absent one
hasSnippetNonBlank(fix) == fix.snippetPresent /\ Len(trimEnd(fix.expectedOriginalSnippet)) > 0

hasSnippet(fix) == fix.snippetPresent /\ Len(fix.expectedOriginalSnippet) > 0

hintOf(fix) == LineHint(fix.startLine, fix.endLine)

\* Edit with the range widened to the start of its first line
EditFromLineStart(trace, via, range) ==
  [edit |-> TRUE, trace |-> trace, via |-> via,
   range |-> [range EXCEPT !.startCol = 0],
   applied |-> FALSE, reason |-> ReasonNone]

Edit(trace, via, range) ==
  [edit |-> TRUE, trace |-> trace, via |-> via, range |-> range,
   applied |-> FALSE, reason |-> ReasonNone]
Return(trace, applied, reason) ==
  [edit |-> FALSE, trace |-> trace, via |-> "none", range |-> NoRange,
   applied |-> applied, reason |-> reason]

\* planLines with the bound compared one line too far
planLinesOffByOne(doc, fix) ==
  LET lines(start, end, endLineIdx) ==
        IF end > lineCount(doc) + 1 THEN Return(<<>>, FALSE, ReasonBounds)
        ELSE Edit(<<>>, "lines", Range(start - 1, 0, endLineIdx, Len(lineAt(doc, endLineIdx))))
      to(start, end) == lines(start, end, Min(end - 1, lineCount(doc) - 1))
      from(start) == to(start, Max(start, fix.endLine))
  IN from(Max(1, fix.startLine))

planLines(doc, fix) ==
  LET lines(start, end, endLineIdx) ==
        IF end > lineCount(doc) THEN Return(<<>>, FALSE, ReasonBounds)
        ELSE Edit(<<>>, "lines", Range(start - 1, 0, endLineIdx, Len(lineAt(doc, endLineIdx))))
      to(start, end) == lines(start, end, Min(end - 1, lineCount(doc) - 1))
      from(start) == to(start, Max(start, fix.endLine))
  IN from(Max(1, fix.startLine))

\* planSnippet falling back to the declared lines when nothing is found
planSnippetLineFallback(doc, fix) ==
  LET snippet == fix.expectedOriginalSnippet
      hint == hintOf(fix)
      viaDoc(normalized) == IF normalized THEN "normalized" ELSE "global"
      traceDoc(normalized) ==
        IF normalized THEN <<"windowed", "global", "normalized">> ELSE <<"windowed", "global">>
      checkApplied(trace) ==
        IF hasReplacementAlreadyApplied(doc, fix.replacement, hint)
        THEN Return(trace, TRUE, ReasonAlready)
        ELSE [planLines(doc, fix) EXCEPT !.trace = trace]
      tryFuzzy(trace, fuzzy) ==
        IF fuzzy.found THEN Edit(trace, "fuzzy", fuzzy.range)
        ELSE checkApplied(trace \o <<"applied">>)
      tryDoc(normalized, inDoc) ==
        IF inDoc.found THEN Edit(traceDoc(normalized), viaDoc(normalized), inDoc.range)
        ELSE tryFuzzy(traceDoc(normalized) \o <<"fuzzy">>,
                      findSnippetFuzzyNearLineHint(doc, snippet, fix.startLine, fix.endLine))
      tryHint(byHint) ==
        IF byHint.found THEN Edit(<<"windowed">>, "windowed", byHint.range)
        ELSE tryDoc(usesNormalized(doc, snippet), findSnippetInDocument(doc, snippet, hint))
  IN tryHint(findSnippetByLineHint(doc, snippet, fix.startLine, fix.endLine))

\* planSnippet with the fuzzy matcher tried before the global search
planSnippetFuzzyFirst(doc, fix) ==
  LET snippet == fix.expectedOriginalSnippet
      hint == hintOf(fix)
      viaDoc(normalized) == IF normalized THEN "normalized" ELSE "global"
      traceDoc(normalized) ==
        IF normalized THEN <<"windowed", "fuzzy", "global", "normalized">>
        ELSE <<"windowed", "fuzzy", "global">>
      checkApplied(trace) ==
        IF hasReplacementAlreadyApplied(doc, fix.replacement, hint)
        THEN Return(trace, TRUE, ReasonAlready)
        ELSE Return(trace, FALSE, ReasonNotFound)
      tryDoc(normalized, inDoc) ==
        IF inDoc.found THEN Edit(traceDoc(normalized), viaDoc(normalized), inDoc.range)
        ELSE checkApplied(traceDoc(normalized) \o <<"applied">>)
      tryFuzzy(fuzzy) ==
        IF fuzzy.found THEN Edit(<<"windowed", "fuzzy">>, "fuzzy", fuzzy.range)
        ELSE tryDoc(usesNormalized(doc, snippet), findSnippetInDocument(doc, snippet, hint))
      tryHint(byHint) ==
        IF byHint.found THEN Edit(<<"windowed">>, "windowed", byHint.range)
        ELSE tryFuzzy(findSnippetFuzzyNearLineHint(doc, snippet, fix.startLine, fix.endLine))
  IN tryHint(findSnippetByLineHint(doc, snippet, fix.startLine, fix.endLine))

\* the snippet strategies of applyFix, in the order of the source; trace lists
\* the strategies consulted
planSnippet(doc, fix) ==
  LET snippet == fix.expectedOriginalSnippet
      hint == hintOf(fix)
      viaDoc(normalized) == IF normalized THEN "normalized" ELSE "global"
      traceDoc(normalized) ==
        IF normalized THEN <<"windowed", "global", "normalized">> ELSE <<"windowed", "global">>
      checkApplied(trace) ==
        IF hasReplacementAlreadyApplied(doc, fix.replacement, hint)
        THEN Return(trace, TRUE, ReasonAlready)
        ELSE Return(trace, FALSE, ReasonNotFound)
      tryFuzzy(trace, fuzzy) ==
        IF fuzzy.found THEN Edit(trace, "fuzzy", fuzzy.range)
        ELSE checkApplied(trace \o <<"applied">>)
      tryDoc(normalized, inDoc) ==
        IF inDoc.found THEN Edit(traceDoc(normalized), viaDoc(normalized), inDoc.range)
        ELSE tryFuzzy(traceDoc(normalized) \o <<"fuzzy">>,
                      findSnippetFuzzyNearLineHint(doc, snippet, fix.startLine, fix.endLine))
      tryHint(byHint) ==
        IF byHint.found THEN Edit(<<"windowed">>, "windowed", byHint.range)
        ELSE tryDoc(usesNormalized(doc, snippet), findSnippetInDocument(doc, snippet, hint))
  IN tryHint(findSnippetByLineHint(doc, snippet, fix.startLine, fix.endLine))

planApplyFix(doc, fix) ==
  IF hasSnippet(fix) THEN planSnippet(doc, fix) ELSE planLines(doc, fix)

\* planCanApplyFix with the fuzzy fallback of applyFix
planCanApplyFixFuzzy(doc, fix) ==
  LET byHint == findSnippetByLineHint(doc, fix.expectedOriginalSnippet, fix.startLine, fix.endLine)
      inDoc == findSnippetInDocument(doc, fix.expectedOriginalSnippet, hintOf(fix))
      fuzzy == findSnippetFuzzyNearLineHint(doc, fix.expectedOriginalSnippet, fix.startLine, fix.endLine)
  IN IF byHint.found THEN TRUE ELSE IF inDoc.found THEN TRUE ELSE fuzzy.found

\* applyFix on a document when the workspace, the store and the editor all
\* cooperate: the document it leaves and the applied flag it returns
runApplyFix(doc, fix) ==
  LET run(plan) ==
        [doc |-> IF plan.edit THEN replaceRange(doc, plan.range, fix.replacement) ELSE doc,
         applied |-> IF plan.edit THEN TRUE ELSE plan.applied]
  IN run(planApplyFix(doc, fix))

\* canApplyFix once the document is open
planCanApplyFix(doc, fix) ==
  LET byHint == findSnippetByLineHint(doc, fix.expectedOriginalSnippet, fix.startLine, fix.endLine)
      inDoc == findSnippetInDocument(doc, fix.expectedOriginalSnippet, hintOf(fix))
  IN IF byHint.found THEN TRUE ELSE inDoc.found

(***************************************************************************)
(* The state: the documents of the workspace, the fixes of the review, and *)
(* the calls of applyFix / canApplyFix made so far, each with the place it *)
(* has reached.  A call is suspended at openTextDocument ("opening"), at   *)
(* applyEdit ("committing") and at showTextDocument ("showing"); the code  *)
(* between two suspensions runs as one step.                               *)
(***************************************************************************)
VARIABLES docs, doc0, fixes, calls, panel

vars == <<docs, doc0, fixes, calls, panel>>

Files == {"f1", "f2"}

MaxCalls == 2

Fix(path, s, e, repl, present, snippet) ==
  [filePath |-> path, startLine |-> s, endLine |-> e, replacement |-> repl,
   snippetPresent |-> present, expectedOriginalSnippet |-> snippet]

Doc(lines, eol) == [lines |-> lines, eol |-> eol]

\* the review panel and its web view before createOrShow: no update() is
\* suspended, no page is installed, no message is in flight
NoPanel == [updates |-> 0, rendering |-> <<>>, gen |-> 0, html |-> <<>>, inbox |-> <<>>]

\* getWorkspaceRoot throws when no workspace folder is open; toAbsoluteUri
\* lets the exception through
getWorkspaceRoot(folderOpen) == [threw |-> ~folderOpen]
toAbsoluteUri(folderOpen, path) == [threw |-> getWorkspaceRoot(folderOpen).threw, uri |-> path]

NewCall(kind, fix) ==
  [kind |-> kind, fix |-> fix, pc |-> "opening", opened |-> FALSE,
   before |-> docs[fix.filePath], seen |-> docs[fix.filePath],
   plan |-> Return(<<>>, FALSE, ReasonNone), edits |-> 0,
   applied |-> FALSE, reason |-> ReasonNone, value |-> FALSE, error |-> "none"]

Finished(c) == c.pc \in {"done", "thrown"}
AllFinished == \A i \in 1..Len(calls) : Finished(calls[i])

\* applyFix(fix) up to the await of openTextDocument
ApplyFixCall(k) ==
  /\ Len(calls) < MaxCalls
  /\ AllFinished
  /\ \E folderOpen \in BOOLEAN :
       LET c == NewCall("applyFix", fixes[k])
       IN calls' = Append(calls,
            IF toAbsoluteUri(folderOpen, fixes[k].filePath).threw
            THEN [c EXCEPT !.pc = "thrown", !.error = ErrNoWorkspace]
            ELSE c)
  /\ UNCHANGED <<docs, doc0, fixes, panel>>

\* ApplyFixOpened reading one document variable shared by all calls: the
\* document of the latest call
ApplyFixOpenedSharedDoc(i) ==
  /\ calls[i].kind = "applyFix"
  /\ calls[i].pc = "opening"
  /\ \E opened \in BOOLEAN :
       LET c == calls[i]
           doc == docs[calls[Len(calls)].fix.filePath]
       IN \E plan \in {planApplyFix(doc, c.fix)} :
          calls' = [calls EXCEPT ![i] =
            IF ~opened
            THEN [c EXCEPT !.pc = "done", !.applied = FALSE, !.reason = ReasonOpen]
            ELSE IF plan.edit
            THEN [c EXCEPT !.pc = "committing", !.opened = TRUE, !.seen = doc, !.plan = plan]
            ELSE [c EXCEPT !.pc = "done", !.opened = TRUE, !.seen = doc, !.plan = plan,
                           !.applied = plan.applied, !.reason = plan.reason]]
  /\ UNCHANGED <<docs, doc0, fixes, panel>>

\* openTextDocument settles; the strategies run; applyEdit is called or the
\* call returns
ApplyFixOpened(i) ==
  /\ calls[i].kind = "applyFix"
  /\ calls[i].pc = "opening"
  /\ \E opened \in BOOLEAN :
       LET c == calls[i]
           doc == docs[c.fix.filePath]
       IN IF ~opened
          THEN calls' = [calls EXCEPT ![i] =
                 [c EXCEPT !.pc = "done", !.applied = FALSE, !.reason = ReasonOpen]]
          ELSE \E plan \in {planApplyFix(doc, c.fix)} :
                 calls' = [calls EXCEPT ![i] =
                   IF plan.edit
                   THEN [c EXCEPT !.pc = "committing", !.opened = TRUE, !.seen = doc, !.plan = plan]
                   ELSE [c EXCEPT !.pc = "done", !.opened = TRUE, !.seen = doc, !.plan = plan,
                                  !.applied = plan.applied, !.reason = plan.reason]]
  /\ UNCHANGED <<docs, doc0, fixes, panel>>

\* ApplyFixEdited without the test of applyEdit's result
ApplyFixEditedUnchecked(i) ==
  /\ calls[i].kind = "applyFix"
  /\ calls[i].pc = "committing"
  /\ \E ok \in BOOLEAN :
       LET c == calls[i]
           path == c.fix.filePath
       IN IF ok
          THEN /\ docs' = [docs EXCEPT ![path] = replaceRange(docs[path], c.plan.range, c.fix.replacement)]
               /\ calls' = [calls EXCEPT ![i] = [c EXCEPT !.pc = "showing", !.edits = c.edits + 1]]
          ELSE /\ docs' = docs
               /\ calls' = [calls EXCEPT ![i] = [c EXCEPT !.pc = "showing"]]
  /\ UNCHANGED <<doc0, fixes, panel>>

\* ApplyFixEdited with the range looked up again in the text the document has
\* when the edit is committed
ApplyFixEditedFreshRange(i) ==
  /\ calls[i].kind = "applyFix"
  /\ calls[i].pc = "committing"
  /\ \E ok \in BOOLEAN :
       LET c == calls[i]
           path == c.fix.filePath
       IN \E fresh \in {planApplyFix(docs[path], c.fix)} :
          IF ok
          THEN /\ docs' = [docs EXCEPT ![path] =
                      replaceRange(docs[path], IF fresh.edit THEN fresh.range ELSE c.plan.range,
                                   c.fix.replacement)]
               /\ calls' = [calls EXCEPT ![i] = [c EXCEPT !.pc = "showing", !.edits = c.edits + 1]]
          ELSE /\ docs' = docs
               /\ calls' = [calls EXCEPT ![i] =
                     [c EXCEPT !.pc = "done", !.applied = FALSE, !.reason = ReasonRejected]]
  /\ UNCHANGED <<doc0, fixes, panel>>

\* applyEdit settles: the store commits the one replace edit, or rejects it
ApplyFixEdited(i) ==
  /\ calls[i].kind = "applyFix"
  /\ calls[i].pc = "committing"
  /\ \E ok \in BOOLEAN :
       LET c == calls[i]
           path == c.fix.filePath
       IN IF ok
          THEN /\ docs' = [docs EXCEPT ![path] = replaceRange(docs[path], c.plan.range, c.fix.replacement)]
               /\ calls' = [calls EXCEPT ![i] = [c EXCEPT !.pc = "showing", !.edits = c.edits + 1]]
          ELSE /\ docs' = docs
               /\ calls' = [calls EXCEPT ![i] =
                     [c EXCEPT !.pc = "done", !.applied = FALSE, !.reason = ReasonRejected]]
  /\ UNCHANGED <<doc0, fixes, panel>>

\* showTextDocument settles: the call returns applied, or the rejection of
\* showTextDocument leaves applyFix as its own rejection
ApplyFixShown(i) ==
  /\ calls[i].kind = "applyFix"
  /\ calls[i].pc = "showing"
  /\ \E shown \in BOOLEAN :
       calls' = [calls EXCEPT ![i] =
            IF shown
            THEN [@ EXCEPT !.pc = "done", !.applied = TRUE, !.reason = ReasonNone]
            ELSE [@ EXCEPT !.pc = "thrown", !.error = ErrShow]]
  /\ UNCHANGED <<docs, doc0, fixes, panel>>

\* canApplyFix(fix) up to the await of openTextDocument
CanApplyFixCall(k) ==
  /\ Len(calls) < MaxCalls
  /\ AllFinished
  /\ \E folderOpen \in BOOLEAN :
       LET c == NewCall("canApplyFix", fixes[k])
       IN calls' = Append(calls,
            IF ~hasSnippet(fixes[k]) THEN [c EXCEPT !.pc = "done", !.value = TRUE]
            ELSE IF toAbsoluteUri(folderOpen, fixes[k].filePath).threw
            THEN [c EXCEPT !.pc = "done", !.value = FALSE]
            ELSE c)
  /\ UNCHANGED <<docs, doc0, fixes, panel>>

CanApplyFixOpened(i) ==
  /\ calls[i].kind = "canApplyFix"
  /\ calls[i].pc = "opening"
  /\ \E opened \in BOOLEAN :
       LET c == calls[i]
           doc == docs[c.fix.filePath]
       IN calls' = [calls EXCEPT ![i] =
            IF ~opened
            THEN [c EXCEPT !.pc = "done", !.value = FALSE]
            ELSE [c EXCEPT !.pc = "done", !.opened = TRUE, !.seen = doc,
                           !.value = planCanApplyFix(doc, c.fix)]]
  /\ UNCHANGED <<docs, doc0, fixes, panel>>

Next ==
  \/ \E k \in 1..Len(fixes) : ApplyFixCall(k)
  \/ \E i \in 1..Len(calls) : ApplyFixOpened(i)
  \/ \E i \in 1..Len(calls) : ApplyFixEdited(i)
  \/ \E i \in 1..Len(calls) : ApplyFixShown(i)
  \/ \E k \in 1..Len(fixes) : CanApplyFixCall(k)
  \/ \E i \in 1..Len(calls) : CanApplyFixOpened(i)

(***************************************************************************)
(* Inputs: short documents over a few line contents.                       *)
(***************************************************************************)
MaxDocLines == 3

LineA == <<"a">>
LineATrail == <<"a", SP>>
LineBA == <<"b", "a">>

SmallLines == {LineATrail, LineBA}

SmallDocs ==
  {Doc(ls, EolLF) : ls \in UNION {[1..n -> SmallLines] : n \in 1..MaxDocLines}}
  \cup {Doc(ls, EolCRLF) : ls \in [1..2 -> SmallLines]}
  \cup {Doc(<<LineA, LineATrail>>, EolLF)}

Snippets ==
  {<<"a">>, <<"a", SP>>, <<"a", LF, "b", "a">>, <<"a", LF, "b", LF, "a">>}

Replacements == {<<"b">>, <<"c", LF, "c">>}

SmallHints == {<<1, 2>>, <<2, 2>>, <<3, 1>>}

SmallFixes ==
  {Fix("f1", h[1], h[2], r, TRUE, s) : h \in SmallHints, r \in Replacements, s \in Snippets}
  \cup {Fix("f1", h[1], h[2], r, p, <<>>) : h \in SmallHints, r \in Replacements, p \in BOOLEAN}

OtherDoc == Doc(<<LineA>>, EolLF)

InitSmall ==
  /\ \E d \in SmallDocs : docs = [f \in Files |-> IF f = "f1" THEN d ELSE OtherDoc]
  /\ \E fx \in SmallFixes : fixes = <<fx>>

(***************************************************************************)
(* Inputs: long documents of filler lines with one or two marked lines at  *)
(* the distances from the declared line where the radii and the tolerance  *)
(* band end (50/51, 100/101, 200/201 lines away, on either side).          *)
(***************************************************************************)
FarLen == 210

Filler == <<"z">>

FarLow == 5
FarHigh == 205

FarDistances == {0, 50, 51, 100, 101, 200, 201}

\* the marked lines at the given distances below (dir = 1) or above (dir = -1)
\* the declared line h
FarDoc(h, dir, d1, d2) ==
  Doc([i \in 1..FarLen |-> IF i \in {h + dir * d1, h + dir * d2} THEN LineA ELSE Filler], EolLF)

FarFix(h) == Fix("f1", h, h, <<"b">>, TRUE, <<"a">>)

InitFar ==
  \E hd \in {<<FarLow, 1>>, <<FarHigh, -1>>} : \E d1 \in FarDistances, d2 \in FarDistances :
    /\ docs = [f \in Files |-> IF f = "f1" THEN FarDoc(hd[1], hd[2], d1, d2) ELSE OtherDoc]
    /\ fixes = <<FarFix(hd[1])>>

Init ==
  /\ InitSmall
  /\ doc0 = docs
  /\ calls = <<>>
  /\ panel = NoPanel

Spec == Init /\ [][Next]_vars

InitFarOnly ==
  /\ InitFar
  /\ doc0 = docs
  /\ calls = <<>>
  /\ panel = NoPanel

SpecFar == InitFarOnly /\ [][Next]_vars

(***************************************************************************)
(* Inputs: two fixes of one file.                                          *)
(***************************************************************************)
LineB == <<"b">>

PairDocs == {Doc(ls, EolLF) : ls \in UNION {[1..n -> {LineA, LineB}] : n \in 2..MaxDocLines}}

PairFixes ==
  {Fix("f1", h, h, r, TRUE, s) : h \in 1..2, r \in {<<"b">>, <<"c">>}, s \in {<<"a">>, <<"b">>}}

InitPair ==
  /\ \E d \in PairDocs : docs = [f \in Files |-> IF f = "f1" THEN d ELSE OtherDoc]
  /\ \E fa \in PairFixes, fb \in PairFixes : fixes = <<fa, fb>>
  /\ doc0 = docs
  /\ calls = <<>>
  /\ panel = NoPanel

SpecPair == InitPair /\ [][Next]_vars

(***************************************************************************)
(* Inputs: the long documents again, the marked lines now holding the      *)
(* snippet after another character, so that no whole line equals the       *)
(* snippet and the search goes on to the global matcher.                   *)
(***************************************************************************)
FarDocInline(h, dir, d1, d2) ==
  Doc([i \in 1..FarLen |-> IF i \in {h + dir * d1, h + dir * d2} THEN LineBA ELSE Filler], EolLF)

InitFarInline ==
  \E hd \in {<<FarLow, 1>>, <<FarHigh, -1>>} : \E d1 \in FarDistances, d2 \in FarDistances :
    /\ docs = [f \in Files |-> IF f = "f1" THEN FarDocInline(hd[1], hd[2], d1, d2) ELSE OtherDoc]
    /\ fixes = <<FarFix(hd[1])>>

InitGlobal ==
  /\ (InitSmall \/ InitFarInline)
  /\ doc0 = docs
  /\ calls = <<>>
  /\ panel = NoPanel

SpecGlobal == InitGlobal /\ [][Next]_vars

(***************************************************************************)
(* Inputs: snippets that differ from the document in trailing whitespace   *)
(* or line endings only.  A short family with every hint, and the long     *)
(* documents with a snippet of more lines than the windowed matcher can    *)
(* fit between the tolerance band and its own radius.                      *)
(***************************************************************************)
TrailDocs ==
  {Doc(<<LineA, LineATrail>>, EolLF),
   Doc(<<LineA, LineA>>, EolCRLF),
   Doc(<<LineATrail, LineA, LineATrail>>, EolLF)}

TrailSnippets == {<<"a", CR>>, <<"a", SP, SP>>, <<"a", SP, LF, "a">>, <<SP, LF>>}

InitTrail ==
  /\ \E d \in TrailDocs : docs = [f \in Files |-> IF f = "f1" THEN d ELSE OtherDoc]
  /\ \E sn \in TrailSnippets : \E s \in 1..MaxDocLines, e \in 1..MaxDocLines :
       /\ s <= e
       /\ fixes = <<Fix("f1", s, e, <<"b">>, TRUE, sn)>>

LongLines == 52

\* LineA, LongLines - 1 filler lines and a trailing blank
LongSnippet ==
  LineA \o [k \in 1..(2 * (LongLines - 1)) |-> IF k % 2 = 1 THEN LF ELSE Filler[1]] \o <<SP>>

LongDistances == {50, 51}

InitFarLong ==
  /\ \E d \in LongDistances :
       docs = [f \in Files |-> IF f = "f1" THEN FarDoc(FarLow, 1, d, d) ELSE OtherDoc]
  /\ fixes = <<Fix("f1", FarLow, FarLow, <<"b">>, TRUE, LongSnippet)>>

InitNormalized ==
  /\ (InitTrail \/ InitFarLong)
  /\ doc0 = docs
  /\ calls = <<>>
  /\ panel = NoPanel

SpecNormalized == InitNormalized /\ [][Next]_vars

(***************************************************************************)
(* Inputs: a snippet of n equal lines and a document of n lines, some of   *)
(* them different from the snippet's: the first, the last, and a run of    *)
(* lines after the first.  The line counts are those on either side of the *)
(* thresholds of the minimum score.                                        *)
(***************************************************************************)
FuzzyCounts == {1, 2, 3, 5, 6, 7, 25, 26}

LinesOfA(n) == [k \in 1..(2 * n - 1) |-> IF k % 2 = 1 THEN LineA[1] ELSE LF]

FuzzyDoc(n, mf, ml, k) ==
  Doc([i \in 1..n |-> IF \/ (i = 1 /\ mf)
                          \/ (i = n /\ ml)
                          \/ (1 < i /\ i < n /\ i <= k + 1)
                       THEN Filler ELSE LineA], EolLF)

InitFuzzy ==
  /\ \E n \in FuzzyCounts : \E mf \in BOOLEAN, ml \in BOOLEAN, k \in 0..Max(0, n - 2) :
       /\ docs = [f \in Files |-> IF f = "f1" THEN FuzzyDoc(n, mf, ml, k) ELSE OtherDoc]
       /\ fixes = <<Fix("f1", 1, n, <<"b">>, TRUE, LinesOfA(n))>>
  /\ doc0 = docs
  /\ calls = <<>>
  /\ panel = NoPanel

SpecFuzzy == InitFuzzy /\ [][Next]_vars

(***************************************************************************)
(* Inputs: a snippet of ten different lines and a document of thirty lines *)
(* with two candidate windows, lines 1-10 and lines 21-30, each holding    *)
(* the snippet's lines at some indices and filler lines at the others.     *)
(***************************************************************************)
TieChars == <<"a", "b", "c", "d", "e", "f", "g", "h", "i", "j">>

TieSnippet == [k \in 1..(2 * Len(TieChars) - 1) |-> IF k % 2 = 1 THEN TieChars[(k + 1) \div 2] ELSE LF]

\* seven equal lines, neither the first nor the last: score 0.7
SevenInside == 2..8

\* four equal lines, the first and the last among them: score 0.4 + 0.15 + 0.15
FourWithEnds == {1, 2, 9, 10}

TieDoc(top, bottom) ==
  Doc([i \in 1..30 |->
         IF i <= 10 /\ i \in top THEN <<TieChars[i]>>
         ELSE IF i > 20 /\ (i - 20) \in bottom THEN <<TieChars[i - 20]>>
         ELSE Filler], EolLF)

TieHints == {<<1, 10>>, <<11, 20>>, <<21, 30>>}

InitTie ==
  /\ \E top \in {SevenInside, FourWithEnds}, bottom \in {SevenInside, FourWithEnds} :
       docs = [f \in Files |-> IF f = "f1" THEN TieDoc(top, bottom) ELSE OtherDoc]
  /\ \E h \in TieHints : fixes = <<Fix("f1", h[1], h[2], <<"b">>, TRUE, TieSnippet)>>
  /\ doc0 = docs
  /\ calls = <<>>
  /\ panel = NoPanel

SpecTie == InitTie /\ [][Next]_vars

(***************************************************************************)
(* Inputs: fixes whose snippet occurs nowhere, so that applyFix goes on to *)
(* look for the replacement, next to the same fixes with a snippet that is *)
(* found.  Short documents with replacements that are                      *)
(* empty, blank, literal or equal after normalization only, with a hint on *)
(* the document and one more than 200 lines past its end; and the long     *)
(* documents with the replacement, up to a trailing blank, on one line     *)
(* 199, 200 or 201 lines from the declared line.                           *)
(***************************************************************************)
LineQ == <<"q">>

AppliedReplacements ==
  {<<>>, <<SP>>, <<"b">>, <<"a", SP>>, <<"a", SP, SP>>, <<"a", CR, LF, "a">>, <<"a", SP, LF, "a">>}

AppliedStarts == {1, MaxDocLines + AppliedRadius + 1}

InitAppliedSmall ==
  /\ \E d \in TrailDocs : docs = [f \in Files |-> IF f = "f1" THEN d ELSE OtherDoc]
  /\ \E r \in AppliedReplacements, s \in AppliedStarts, sn \in {LineQ, LineA} :
       fixes = <<Fix("f1", s, s, r, TRUE, sn)>>

AppliedDistances == {199, 200, 201}

AppliedDoc(h, dir, d) ==
  Doc([i \in 1..FarLen |-> IF i = h + dir * d THEN LineB ELSE Filler], EolLF)

InitAppliedFar ==
  \E hd \in {<<FarLow, 1>>, <<FarHigh, -1>>} : \E d \in AppliedDistances :
    /\ docs = [f \in Files |-> IF f = "f1" THEN AppliedDoc(hd[1], hd[2], d) ELSE OtherDoc]
    /\ fixes = <<Fix("f1", hd[1], hd[1], <<"b", SP>>, TRUE, LineQ)>>

InitApplied ==
  /\ (InitAppliedSmall \/ InitAppliedFar)
  /\ doc0 = docs
  /\ calls = <<>>
  /\ panel = NoPanel

SpecApplied == InitApplied /\ [][Next]_vars

InitAll ==
  /\ (InitSmall \/ InitFar)
  /\ doc0 = docs
  /\ calls = <<>>
  /\ panel = NoPanel

SpecAll == InitAll /\ [][Next]_vars

(***************************************************************************)
(* The review panel (src/src/views/ReviewPanel.ts).  A click on the Apply  *)
(* button of a fix posts an applyFix message; the panel's message handler  *)
(* looks the fix up and calls applyFix.  The handler is an async function  *)
(* that nothing serialises, so a message is handled while the calls of     *)
(* earlier messages are suspended.  The fixes of a review have distinct    *)
(* ids, here: distinct records.                                            *)
(***************************************************************************)

\* the calls of applyFix made for fix k
CallsOfFix(k) == {i \in 1..Len(calls) : calls[i].kind = "applyFix" /\ calls[i].fix = fixes[k]}

\* appliedFixes.has(fixId): a fixApplied message was posted for the fix
FixApplied(k) == \E i \in CallsOfFix(k) : calls[i].pc = "done" /\ calls[i].applied

\* the Apply button of fix k is disabled: from the click on it until a
\* fixFailed message enables it again
ButtonDisabled(k) == \E i \in CallsOfFix(k) : ~(calls[i].pc = "done" /\ ~calls[i].applied)

\* the click handler of the web view, the message handler of the panel and
\* applyFix(fix) up to the await of openTextDocument
PanelApplyFix(k) ==
  /\ Len(calls) < MaxCalls
  /\ ~ButtonDisabled(k)
  /\ ~FixApplied(k)
  /\ \E folderOpen \in BOOLEAN :
       LET c == NewCall("applyFix", fixes[k])
       IN calls' = Append(calls,
            IF toAbsoluteUri(folderOpen, fixes[k].filePath).threw
            THEN [c EXCEPT !.pc = "thrown", !.error = ErrNoWorkspace]
            ELSE c)
  /\ UNCHANGED <<docs, doc0, fixes, panel>>

NextPanel ==
  \/ \E k \in 1..Len(fixes) : PanelApplyFix(k)
  \/ \E i \in 1..Len(calls) : ApplyFixOpened(i)
  \/ \E i \in 1..Len(calls) : ApplyFixEdited(i)
  \/ \E i \in 1..Len(calls) : ApplyFixShown(i)

(***************************************************************************)
(* Inputs: a review with two fixes, of one file or of two.                 *)
(***************************************************************************)
PanelDocs == {Doc(<<LineA, LineB>>, EolLF), Doc(<<LineB, LineA>>, EolLF)}

PanelFixes ==
  {Fix(f, 1, 1, <<"c", LF, "c">>, TRUE, <<"a">>) : f \in Files}
  \cup {Fix(f, 1, 1, <<"d">>, TRUE, <<"b">>) : f \in Files}
  \cup {Fix(f, 2, 2, <<"d">>, FALSE, <<>>) : f \in Files}

InitPanel ==
  /\ docs \in [Files -> PanelDocs]
  /\ \E fa \in PanelFixes, fb \in PanelFixes : fa # fb /\ fixes = <<fa, fb>>
  /\ doc0 = docs
  /\ calls = <<>>
  /\ panel = NoPanel

SpecPanel == InitPanel /\ [][NextPanel]_vars

(***************************************************************************)
(* Inputs: every short text over a letter, a blank and the two line        *)
(* terminator characters, as the snippet of a fix.                          *)
(***************************************************************************)
MaxTextLen == 3

TextChars == {"a", SP, CR, LF}

TextsUpTo(n) == UNION {[1..k -> TextChars] : k \in 0..n}

LineAAA == <<"a", "a", "a">>

TextDocs ==
  {Doc(<<LineA, LineATrail>>, EolLF), Doc(<<LineA, LineA>>, EolCRLF), Doc(<<LineAAA>>, EolLF)}

InitText ==
  /\ \E d \in TextDocs : docs = [f \in Files |-> IF f = "f1" THEN d ELSE OtherDoc]
  /\ \E s \in TextsUpTo(MaxTextLen), r \in {<<"b">>, <<"a", SP, LF>>} :
       fixes = <<Fix("f1", 1, 1, r, TRUE, s)>>
  /\ doc0 = docs
  /\ calls = <<>>
  /\ panel = NoPanel

SpecText == InitText /\ [][Next]_vars

(***************************************************************************)
(* Properties.                                                             *)
(***************************************************************************)
ApplyCalls == {i \in 1..Len(calls) : calls[i].kind = "applyFix"}
CanApplyCalls == {i \in 1..Len(calls) : calls[i].kind = "canApplyFix"}

\* the calls of applyFix whose strategies have run on a fix with a snippet
SnippetCalls == {i \in ApplyCalls : calls[i].opened /\ hasSnippet(calls[i].fix)}

LastOf(tr) == tr[Len(tr)]

StrategyRank(st) ==
  CASE st = "windowed" -> 1
    [] st = "global" -> 2
    [] st = "normalized" -> 3
    [] st = "fuzzy" -> 4
    [] st = "applied" -> 5

\* the candidate a strategy returns on a document, each from its own matcher
candidateOf(st, doc, fix) ==
  LET snippet == fix.expectedOriginalSnippet
      anyExact == Len(exactMatches(getText(doc), snippet)) > 0
  IN CASE st = "windowed" -> findSnippetByLineHint(doc, snippet, fix.startLine, fix.endLine)
       [] st = "global" -> IF anyExact THEN findSnippetInDocument(doc, snippet, hintOf(fix)) ELSE NoMatch
       [] st = "normalized" -> IF anyExact THEN NoMatch ELSE findSnippetInDocument(doc, snippet, hintOf(fix))
       [] st = "fuzzy" -> findSnippetFuzzyNearLineHint(doc, snippet, fix.startLine, fix.endLine)
       [] st = "applied" -> NoMatch

C1_State ==
  \A i \in SnippetCalls :
    LET c == calls[i]
        tr == c.plan.trace
    IN /\ Len(tr) > 0
       /\ tr[1] = "windowed"
       /\ \A k \in 1..(Len(tr) - 1) :
            /\ StrategyRank(tr[k]) < StrategyRank(tr[k + 1])
            /\ ~candidateOf(tr[k], c.seen, c.fix).found
       /\ c.plan.edit =>
            /\ LastOf(tr) # "applied"
            /\ candidateOf(LastOf(tr), c.seen, c.fix).found
            /\ c.plan.range = candidateOf(LastOf(tr), c.seen, c.fix).range
       /\ ~c.plan.edit => LastOf(tr) = "applied"
       /\ c.reason = ReasonRejected =>
            c.pc = "done" /\ ~c.applied /\ c.edits = 0 /\ c.plan.edit

C1_Step ==
  \A i \in SnippetCalls :
    /\ calls'[i].plan = calls[i].plan
    /\ Finished(calls[i]) => calls'[i] = calls[i]

\* C1: for a fix with a non-empty snippet the strategies are consulted in the
\* order windowed, global exact, normalized, fuzzy, already-applied; a strategy
\* is consulted only after every strategy consulted before it returned no
\* candidate; the edit is issued at the candidate of the last strategy
\* consulted; and a rejected edit ends the call with applied = false, no later
\* strategy is consulted and nothing is retried.
C1_StrategyOrder == [](C1_State) /\ [][C1_Step]_vars

\* a call whose first three strategies found nothing, whose edit at the fuzzy
\* candidate was rejected
C1_Witness ==
  \E i \in SnippetCalls :
    /\ calls[i].plan.trace = <<"windowed", "global", "normalized", "fuzzy">>
    /\ calls[i].reason = ReasonRejected

\* the 0-based offset of a position in the text of a document
offsetAt(doc, line, col) == Len(getTextRange(doc, Range(0, 0, line, col)))

\* a text with its line terminators replaced by those of the document
withEol(text, eol) == join(splitLines(text), eol)

\* new is old with the text of range r replaced by repl, and nothing else changed
OneRangeReplaced(old, new, r, repl) ==
  LET oldText == getText(old)
      from == offsetAt(old, r.startLine, r.startCol)
      to == offsetAt(old, r.endLine, r.endCol)
  IN /\ from <= to
     /\ getText(new) = SubSeq(oldText, 1, from) \o withEol(repl, old.eol)
                          \o SubSeq(oldText, to + 1, Len(oldText))

\* C2: a call of applyFix commits at most one edit, which replaces one
\* contiguous range; it has committed exactly one when it returns applied = true
\* without a reason, and none (the text is unchanged) when it returns
\* applied = false or applied = true with the already-applied reason.
C2_AtMostOneEdit ==
  \A i \in ApplyCalls :
    LET c == calls[i]
        now == docs[c.fix.filePath]
    IN /\ c.edits <= 1
       /\ (c.pc = "done" /\ c.applied /\ c.reason = ReasonNone) => c.edits = 1
       /\ (c.pc = "done" /\ (~c.applied \/ c.reason = ReasonAlready)) => c.edits = 0
       /\ (i = Len(calls) /\ c.edits = 0) => getText(now) = getText(c.before)
       /\ (i = Len(calls) /\ c.edits = 1) =>
            OneRangeReplaced(c.before, now, validateRange(c.before, c.plan.range), c.fix.replacement)

\* one call has returned applied = true after its single edit, another has
\* returned the already-applied result without an edit
C2_Witness ==
  /\ \E i \in ApplyCalls :
       calls[i].pc = "done" /\ calls[i].applied /\ calls[i].reason = ReasonNone /\ calls[i].edits = 1
  /\ \E i \in ApplyCalls :
       calls[i].pc = "done" /\ calls[i].reason = ReasonAlready /\ calls[i].edits = 0

\* the replacement as the document holds it occurs in the document
ContainsReplacement(doc, fix) ==
  indexOf(getText(doc), withEol(fix.replacement, doc.eol), 0) # -1

\* C3: when a first call of applyFix (here: of a fix with a snippet, returning
\* applied = true) has mutated the document so that it contains the
\* replacement, the next call with the same fix issues no edit and returns
\* applied = true with the already-applied reason.
C3_Idempotent ==
  \A i \in ApplyCalls : \A j \in ApplyCalls :
    (/\ j = i + 1
     /\ calls[i].fix = calls[j].fix
     /\ hasSnippet(calls[i].fix)
     /\ calls[i].pc = "done" /\ calls[i].applied /\ calls[i].reason = ReasonNone
     /\ calls[i].edits = 1
     /\ calls[j].opened
     /\ ContainsReplacement(calls[j].before, calls[j].fix))
    => (/\ ~calls[j].plan.edit
        /\ calls[j].plan.applied
        /\ calls[j].plan.reason = ReasonAlready
        /\ calls[j].edits = 0)

\* the literal occurrences of the snippet of call c in the document it read
ExactOf(c) == exactMatches(getText(c.seen), c.fix.expectedOriginalSnippet)

\* the offsets at which a snippet occurs literally in a text
OffsetsOf(text, snippet) == {o \in 0..Len(text) : Occurs(text, snippet, o)}

\* the number of the line (0-based) that holds offset o of a text
LineOfOffset(text, o) == Cardinality({k \in 1..o : text[k] = LF})

\* the edit of call c is issued at the occurrence at offset o: at exactly its
\* characters, or at the whole lines it lies on when these equal the snippet
\* after normalization
C4_AtOccurrence(c, o) ==
  LET r == c.plan.range
      from == offsetAt(c.seen, r.startLine, r.startCol)
      to == offsetAt(c.seen, r.endLine, r.endCol)
      end == o + Len(c.fix.expectedOriginalSnippet)
  IN /\ c.plan.edit
     /\ \/ from = o /\ to = end
        \/ /\ from <= o /\ end <= to
           /\ r.startCol = 0 /\ r.endCol = Len(lineAt(c.seen, r.endLine))
           /\ normalizeText(getTextRange(c.seen, r)) = normalizeText(c.fix.expectedOriginalSnippet)

\* the snippet of call c occurs literally exactly once in the text it read
C4_Once(c) ==
  Cardinality(OffsetsOf(getText(c.seen), c.fix.expectedOriginalSnippet)) = 1

C4_Offset(c) == indexOf(getText(c.seen), c.fix.expectedOriginalSnippet, 0)

C4_Near(c, o) ==
  LET text == getText(c.seen)
      first == LineOfOffset(text, o)
      last == LineOfOffset(text, o + Len(c.fix.expectedOriginalSnippet))
      windows == normalizedMatches(c.seen, c.fix.expectedOriginalSnippet)
  IN /\ first <= c.fix.endLine - 1 + ToleranceLines
     /\ last >= c.fix.startLine - 1 - ToleranceLines
     /\ \A k \in 1..Len(windows) : windows[k].range.startLine = first

AtHint(r, fix) == r.startLine = fix.startLine - 1 /\ r.endLine = fix.endLine - 1

\* C5: of two occurrences of the snippet, one at the declared lines and one
\* outside the 50-line tolerance band, the edit is issued at the one at the
\* declared lines, wherever the distant one lies.
C5_ToleranceBoundary ==
  \A i \in SnippetCalls :
    LET c == calls[i]
        occ == ExactOf(c)
    IN \A k \in 1..Len(occ) :
         (/\ Len(occ) = 2
          /\ AtHint(occ[k].range, c.fix)
          /\ ~isWithinTolerance(occ[3 - k].range, c.fix.startLine, c.fix.endLine, ToleranceLines))
         => (c.plan.edit /\ c.plan.range = occ[k].range)

\* the best score of a window of whole lines anywhere in the document clears
\* the minimum
FuzzyAnywhere(doc, snippet) ==
  LET expectedLines == splitLF(normalizeText(snippet))
      n == Len(expectedLines)
  IN \E line \in 0..(lineCount(doc) - n) :
       computeLineSimilarityScore(expectedLines,
                                  [k \in 1..n |-> trimEnd(lineAt(doc, line + k - 1))])
         >= minScoreFor(n) * n

\* no literal, normalized or fuzzy match of the snippet anywhere, and the
\* replacement nowhere, literally or after normalization
C6_NothingToFind(doc, fix) ==
  /\ indexOf(getText(doc), fix.expectedOriginalSnippet, 0) = -1
  /\ Len(normalizedMatches(doc, fix.expectedOriginalSnippet)) = 0
  /\ ~FuzzyAnywhere(doc, fix.expectedOriginalSnippet)
  /\ indexOf(getText(doc), fix.replacement, 0) = -1
  /\ indexOf(normalizeText(getText(doc)), normalizeText(fix.replacement), 0) = -1

\* C6: with a non-empty snippet that has no literal, normalized or fuzzy match
\* in a document that does not contain the replacement, applyFix issues no edit
\* and returns applied = false with the snippet-not-found reason; the declared
\* line range is replaced only when there is no snippet.
C6_NoMatchFails ==
  /\ \A i \in SnippetCalls :
       LET c == calls[i] IN
       /\ c.plan.via # "lines"
       /\ C6_NothingToFind(c.seen, c.fix) =>
            /\ ~c.plan.edit
            /\ c.pc = "done" /\ ~c.applied /\ c.reason = ReasonNotFound /\ c.edits = 0
            /\ i = Len(calls) => docs[c.fix.filePath] = c.before
  /\ \A i \in ApplyCalls : (calls[i].opened /\ calls[i].plan.via = "lines") => ~hasSnippet(calls[i].fix)

\* a call with a snippet that nothing matches has returned snippet-not-found
\* though the declared lines exist in the document
C6_Witness ==
  \E i \in SnippetCalls :
    /\ C6_NothingToFind(calls[i].seen, calls[i].fix)
    /\ calls[i].reason = ReasonNotFound
    /\ Max(calls[i].fix.startLine, calls[i].fix.endLine) <= lineCount(calls[i].seen)

\* the calls of applyFix whose line fallback has run (no snippet)
LineCalls == {i \in ApplyCalls : calls[i].opened /\ ~hasSnippet(calls[i].fix)}

\* C7: without a snippet, applyFix returns applied = false with the
\* out-of-bounds reason and commits nothing when the clamped end line exceeds
\* the line count of the document; otherwise its edit replaces exactly the
\* whole lines start..end by the replacement, whatever they contain.
C7_LineFallback ==
  \A i \in LineCalls :
    LET c == calls[i]
        d == c.seen
        start == IF c.fix.startLine >= 1 THEN c.fix.startLine ELSE 1
        end == IF c.fix.endLine >= start THEN c.fix.endLine ELSE start
    IN IF end > Len(d.lines)
       THEN /\ ~c.plan.edit
            /\ c.pc = "done" /\ ~c.applied /\ c.reason = ReasonBounds /\ c.edits = 0
            /\ i = Len(calls) => docs[c.fix.filePath] = c.before
       ELSE /\ c.plan.edit
            /\ c.plan.range = [startLine |-> start - 1, startCol |-> 0,
                                endLine |-> end - 1, endCol |-> Len(d.lines[end])]
            /\ (i = Len(calls) /\ c.edits = 1) =>
                 docs[c.fix.filePath].lines =
                   SubSeq(d.lines, 1, start - 1) \o splitLines(c.fix.replacement)
                     \o SubSeq(d.lines, end + 1, Len(d.lines))

\* a call without a snippet has replaced two whole lines and returned applied
C7_Witness ==
  \E i \in LineCalls :
    /\ calls[i].plan.range.endLine > calls[i].plan.range.startLine
    /\ calls[i].pc = "done" /\ calls[i].applied /\ calls[i].edits = 1

\* C8: applyFix never throws or rejects; every call ends with a result, and a
\* failure is applied = false with a reason.
C8_NeverThrows ==
  \A i \in ApplyCalls :
    /\ calls[i].pc # "thrown"
    /\ (calls[i].pc = "done" /\ ~calls[i].applied) => calls[i].reason # ReasonNone

\* C9: canApplyFix commits no edit and leaves the document as it is; for a fix
\* with a non-empty snippet it returns true exactly when the document opened
\* and windowed, global exact or normalized matching yields a candidate,
\* whatever the fuzzy matcher or the already-applied check would say.
C9_CanApplyReadOnly ==
  \A i \in CanApplyCalls :
    LET c == calls[i] IN
    /\ c.edits = 0
    /\ i = Len(calls) => docs[c.fix.filePath] = c.before
    /\ (c.pc = "done" /\ hasSnippet(c.fix)) =>
         (c.value <=> (c.opened /\ \E st \in {"windowed", "global", "normalized"} :
                                    candidateOf(st, c.seen, c.fix).found))

\* canApplyFix has returned false for a fix that the fuzzy matcher of applyFix
\* accepts
C9_Witness ==
  \E i \in CanApplyCalls :
    LET c == calls[i] IN
    /\ c.pc = "done" /\ c.opened /\ hasSnippet(c.fix) /\ ~c.value
    /\ candidateOf("fuzzy", c.seen, c.fix).found

\* the snippet of a fix occurs literally exactly once in a document, on exactly
\* the declared lines
OnceAtHint(doc, fix) ==
  LET occ == exactMatches(getText(doc), fix.expectedOriginalSnippet)
  IN hasSnippet(fix) /\ Len(occ) = 1 /\ AtHint(occ[1].range, fix)

\* a call of applyFix that met no failure of the workspace, the store or the
\* editor
Undisturbed(c) ==
  c.kind = "applyFix" /\ c.pc = "done" /\ c.opened /\ c.reason # ReasonRejected

\* C10: two fixes of one file whose snippets occur (here: once each, on the
\* declared lines) in disjoint regions of the original document, applied one
\* after the other, both return applied = true and leave the same document in
\* either order.
C10_OrderIndependent ==
  (/\ Len(fixes) = 2
   /\ Len(calls) = 2
   /\ calls[1].fix = fixes[1] /\ calls[2].fix = fixes[2]
   /\ Undisturbed(calls[1]) /\ Undisturbed(calls[2])
   /\ fixes[1].filePath = fixes[2].filePath
   /\ OnceAtHint(doc0[fixes[1].filePath], fixes[1])
   /\ OnceAtHint(doc0[fixes[1].filePath], fixes[2])
   /\ fixes[1].endLine < fixes[2].startLine \/ fixes[2].endLine < fixes[1].startLine)
  => LET d0 == doc0[fixes[1].filePath]
         other == runApplyFix(d0, fixes[2])
         otherThen == runApplyFix(other.doc, fixes[1])
     IN /\ calls[1].applied /\ calls[2].applied
        /\ other.applied /\ otherThen.applied
        /\ docs[fixes[1].filePath] = otherThen.doc

\* the calls of applyFix on the file of call i, other than i
SameFileCalls(i) ==
  {j \in ApplyCalls \ {i} : calls[j].fix.filePath = calls[i].fix.filePath}

\* the result applyFix returns for its plan and the answers of the store
AloneResult(c) ==
  IF ~c.opened THEN <<FALSE, ReasonOpen>>
  ELSE IF ~c.plan.edit THEN <<c.plan.applied, c.plan.reason>>
  ELSE IF c.edits = 1 THEN <<TRUE, ReasonNone>>
  ELSE <<FALSE, ReasonRejected>>

\* C11: a call of applyFix on a file that no other call targets sees the
\* original text of its file, plans on it, leaves in the file exactly its own
\* edit (or nothing), and returns the result it returns when run alone,
\* whatever the calls on other files do in between; a file that no call
\* targets keeps its text.
C11_DifferentFilesIndependent ==
  /\ \A i \in ApplyCalls : SameFileCalls(i) = {} =>
        LET c == calls[i]
            d0 == doc0[c.fix.filePath]
        IN /\ c.opened => (c.seen = d0 /\ c.plan = planApplyFix(d0, c.fix))
           /\ docs[c.fix.filePath] =
                IF c.edits = 1 THEN replaceRange(d0, c.plan.range, c.fix.replacement) ELSE d0
           /\ c.pc = "done" => <<c.applied, c.reason>> = AloneResult(c)
  /\ \A f \in Files : (\A i \in ApplyCalls : calls[i].fix.filePath # f) => docs[f] = doc0[f]

\* two calls on different files: the second has opened, edited and returned
\* while the first is suspended after its own edit
C11_Witness ==
  /\ Len(calls) = 2
  /\ calls[1].fix.filePath # calls[2].fix.filePath
  /\ calls[1].pc = "showing" /\ calls[1].edits = 1
  /\ calls[2].pc = "done" /\ calls[2].applied /\ calls[2].edits = 1

\* a step in which call i commits its edit
Commits(i) == calls[i].pc = "committing" /\ calls'[i].edits = calls[i].edits + 1

\* the commit of a call replaces, in the text the document has by then, the
\* range that the call computed on the text it saw when the document opened
C12_Step ==
  \A i \in 1..Len(calls) : Commits(i) =>
    LET c == calls[i]
        path == c.fix.filePath
    IN docs'[path] = replaceRange(docs[path], planApplyFix(c.seen, c.fix).range, c.fix.replacement)

\* C12: calls of applyFix on one file race: every commit is made at the range
\* computed from the text seen at open time, also when another call has
\* edited the file in between, so that two calls can both plan on the
\* pre-edit text and both commit, the second at a range that no longer holds
\* the text it matched.
C12_StaleRangeCommitted == [][C12_Step]_vars

\* calls i and j of one file both saw the original text and both committed, i
\* first; when j committed, its range no longer held the text j had matched
C12_Witness ==
  \E i \in ApplyCalls, j \in ApplyCalls :
    LET ci == calls[i]
        cj == calls[j]
        path == ci.fix.filePath
        d0 == doc0[path]
        onlyI == replaceRange(d0, ci.plan.range, ci.fix.replacement)
        onlyJ == replaceRange(d0, cj.plan.range, cj.fix.replacement)
    IN /\ i # j /\ cj.fix.filePath = path
       /\ hasSnippet(ci.fix) /\ hasSnippet(cj.fix)
       /\ ci.edits = 1 /\ cj.edits = 1
       /\ ci.seen = d0 /\ cj.seen = d0
       /\ docs[path] = replaceRange(onlyI, cj.plan.range, cj.fix.replacement)
       /\ docs[path] # replaceRange(onlyJ, ci.plan.range, ci.fix.replacement)
       /\ getTextRange(onlyI, cj.plan.range) # getTextRange(d0, cj.plan.range)

\* C13: the review panel never has two calls of applyFix in flight at the
\* same time.
C13_OneCallInFlight ==
  Cardinality({i \in ApplyCalls : ~Finished(calls[i])}) <= 1

\* the texts normalizeText is applied to by the calls made so far: the snippet
\* and the replacement of the fix, and the text of the document
NormalizedTexts ==
  UNION {{calls[i].fix.expectedOriginalSnippet, calls[i].fix.replacement, getText(calls[i].seen)} :
           i \in {j \in 1..Len(calls) : calls[j].opened}}

\* a text with each of the line endings CR LF, CR and LF written as LF
EolToLF(t) ==
  LET idx == [i \in 1..Len(t) |-> i]
      kept == SelectSeq(idx, LAMBDA i : ~(t[i] = CR /\ i < Len(t) /\ t[i + 1] = LF))
  IN [k \in 1..Len(kept) |-> IF t[kept[k]] = CR THEN LF ELSE t[kept[k]]]

\* a line without its trailing blanks and tabs
StripTrailing(line) ==
  LET keep == {i \in 1..Len(line) : line[i] \notin {SP, "\t"}}
  IN SubSeq(line, 1, IF keep = {} THEN 0 ELSE CHOOSE i \in keep : \A j \in keep : j <= i)

\* the lines of a text, whatever its line endings, without trailing blanks
CanonicalLines(t) ==
  LET ls == splitLF(EolToLF(t)) IN [k \in 1..Len(ls) |-> StripTrailing(ls[k])]

\* the leading blanks of a line
LeadingBlanks(line) ==
  LET stop == {i \in 1..Len(line) : line[i] \notin {SP, "\t"}}
  IN SubSeq(line, 1, IF stop = {} THEN Len(line) ELSE (CHOOSE i \in stop : \A j \in stop : i <= j) - 1)

\* C14: normalizeText leaves (a) no line ending other than LF, (b) no trailing
\* white space on a line, (c) as many lines as the text has, blank ones
\* included, each non-blank line with its leading blanks; and two texts that
\* have the same lines up to line-ending style and trailing blanks normalize
\* to the same text.
C14_Normalizes ==
  /\ \A t \in NormalizedTexts :
       LET n == normalizeText(t)
           ls == splitLF(n)
           want == CanonicalLines(t)
       IN /\ \A i \in 1..Len(n) : n[i] # CR
          /\ \A k \in 1..Len(ls) : Len(ls[k]) = 0 \/ ~IsSpace(ls[k][Len(ls[k])])
          /\ Len(ls) = Len(want)
          /\ \A k \in 1..Len(ls) : want[k] # <<>> => LeadingBlanks(ls[k]) = LeadingBlanks(want[k])
  /\ \A t1 \in NormalizedTexts, t2 \in NormalizedTexts :
       CanonicalLines(t1) = CanonicalLines(t2) => normalizeText(t1) = normalizeText(t2)

\* C15: for every offset at which the snippet occurs in the text of the
\* document, buildRangeFromIndex returns a 0-based range inside the document
\* whose text is exactly the snippet.
C15_RangeRoundTrip ==
  \A i \in SnippetCalls :
    LET doc == calls[i].seen
        snippet == calls[i].fix.expectedOriginalSnippet
    IN \A text \in {getText(doc)} : \A o \in OffsetsOf(text, snippet) :
         \E r \in {buildRangeFromIndex(text, o, snippet)} :
           /\ r = validateRange(doc, r)
           /\ getTextRange(doc, r) = snippet

\* the occurrence of a snippet at offset o begins or ends between the CR and
\* the LF of a line ending of the text
SplitsCRLF(text, o, snippet) ==
  \E e \in {o, o + Len(snippet)} :
    e >= 1 /\ e < Len(text) /\ text[e] = CR /\ text[e + 1] = LF

\* C15, amended: for every offset at which the snippet occurs in the text of
\* the document without beginning or ending inside a CR LF line ending,
\* buildRangeFromIndex returns a 0-based range inside the document whose text
\* is exactly the snippet.
C15_RoundTripOutsideCRLF ==
  \A i \in SnippetCalls :
    LET doc == calls[i].seen
        snippet == calls[i].fix.expectedOriginalSnippet
    IN \A text \in {getText(doc)} : \A o \in OffsetsOf(text, snippet) :
         ~SplitsCRLF(text, o, snippet) =>
           \E r \in {buildRangeFromIndex(text, o, snippet)} :
             /\ r = validateRange(doc, r)
             /\ getTextRange(doc, r) = snippet

\* the global exact matcher has built the range of a multi-line snippet that
\* ends exactly at the end of the document, and the range holds the snippet
C15_Witness ==
  \E i \in SnippetCalls :
    LET c == calls[i]
        last == lineCount(c.seen) - 1
    IN /\ c.plan.via = "global"
       /\ \E k \in 1..Len(c.fix.expectedOriginalSnippet) : c.fix.expectedOriginalSnippet[k] = LF
       /\ c.plan.range.endLine = last
       /\ c.plan.range.endCol = Len(lineAt(c.seen, last))
       /\ c.plan.range.startCol > 0
       /\ getTextRange(c.seen, c.plan.range) = c.fix.expectedOriginalSnippet

\* C16: the exact matcher collects one candidate for every offset at which
\* the snippet occurs literally in the text of the document, occurrences that
\* overlap each other included, in ascending order of offset.
C16_AllOccurrences ==
  \A i \in SnippetCalls :
    LET snippet == calls[i].fix.expectedOriginalSnippet IN
    \A text \in {getText(calls[i].seen)} :
      \E offs \in {collectExact(text, snippet, indexOf(text, snippet, 0))} :
        \E ms \in {exactMatches(text, snippet)} :
          /\ {offs[k] : k \in 1..Len(offs)} = OffsetsOf(text, snippet)
          /\ \A k \in 1..(Len(offs) - 1) : offs[k] < offs[k + 1]
          /\ Len(ms) = Len(offs)
          /\ \A k \in 1..Len(ms) :
               /\ ms[k].matchedText = snippet
               /\ ms[k].range = buildRangeFromIndex(text, offs[k], snippet)

\* the global exact matcher has run on a text in which two occurrences of the
\* snippet overlap
C16_Witness ==
  \E i \in SnippetCalls :
    LET c == calls[i]
        snippet == c.fix.expectedOriginalSnippet
    IN /\ c.plan.via = "global"
       /\ \E text \in {getText(c.seen)} :
            \E o1 \in OffsetsOf(text, snippet), o2 \in OffsetsOf(text, snippet) :
              o1 < o2 /\ o2 < o1 + Len(snippet)

\* the lines lo..hi (0-based) of a document as one text
TextOfLines(doc, lo, hi) == joinRange(doc.lines, lo + 1, hi + 1, doc.eol)

\* the start lines of the windows of n lines that lie inside lines lo..hi of
\* the document and whose normalized text is the normalized snippet
WindowsIn(doc, snippet, n, lo, hi) ==
  {l \in lo..(hi - n + 1) : normalizeText(TextOfLines(doc, l, l + n - 1)) = normalizeText(snippet)}

\* C17: the windowed matcher returns the window of lowest start line among
\* the windows of the snippet's line count that lie inside lines
\* startLine-1-100 .. endLine-1+100, clamped to the document, and whose
\* normalized text is the normalized snippet, as whole lines; it returns null
\* when there is none.
C17_WindowedFirst ==
  \A i \in SnippetCalls :
    LET c == calls[i]
        doc == c.seen
        snippet == c.fix.expectedOriginalSnippet
        n == Len(splitLF(normalizeText(snippet)))
        lo == IF c.fix.startLine - 1 - 100 > 0 THEN c.fix.startLine - 1 - 100 ELSE 0
        hi == IF c.fix.endLine - 1 + 100 < Len(doc.lines) - 1
              THEN c.fix.endLine - 1 + 100 ELSE Len(doc.lines) - 1
    IN \E w \in {WindowsIn(doc, snippet, n, lo, hi)} :
       \E m \in {findSnippetByLineHint(doc, snippet, c.fix.startLine, c.fix.endLine)} :
         IF w = {} THEN ~m.found
         ELSE \E first \in w :
                /\ \A l \in w : first <= l
                /\ m.found
                /\ m.range = [startLine |-> first, startCol |-> 0, endLine |-> first + n - 1,
                               endCol |-> Len(doc.lines[first + n])]
                /\ m.range.startLine >= lo /\ m.range.endLine <= hi
                /\ m.matchedText = TextOfLines(doc, first, first + n - 1)

\* the windowed matcher has found a window that starts on the last line of its
\* range, 100 lines below the declared end line
C17_Witness ==
  \E i \in SnippetCalls :
    /\ calls[i].plan.via = "windowed"
    /\ calls[i].plan.range.startLine = calls[i].fix.endLine - 1 + WindowRadius

\* the calls on a fix with a snippet that occurs literally in the document
ExactCalls ==
  {i \in SnippetCalls :
     OffsetsOf(getText(calls[i].seen), calls[i].fix.expectedOriginalSnippet) # {}}

\* the line (0-based) on which the occurrence at offset o ends
EndLineOfOffset(text, o, snippet) == LineOfOffset(text, o + Len(snippet))

\* the occurrence at offset o overlaps the band of 50 lines around the
\* declared lines s..e
InBand(text, o, snippet, s, e) ==
  /\ s - 1 - 50 <= EndLineOfOffset(text, o, snippet)
  /\ LineOfOffset(text, o) <= e - 1 + 50

\* twice the distance of the midpoint of the occurrence at offset o from the
\* midpoint of the declared lines s..e
MidDistance(text, o, snippet, s, e) ==
  Abs((LineOfOffset(text, o) + EndLineOfOffset(text, o, snippet)) - ((s - 1) + (e - 1)))

\* C18: when the snippet occurs literally and a hint is given, the global
\* matcher returns the occurrence inside the 50-line band whose midpoint is
\* closest to the midpoint of the hint, the earliest one among equals.
C18_ClosestInBand ==
  \A i \in ExactCalls :
    LET c == calls[i]
        snippet == c.fix.expectedOriginalSnippet
        s == c.fix.startLine
        e == c.fix.endLine
    IN \A text \in {getText(c.seen)} :
       \E m \in {findSnippetInDocument(c.seen, snippet, hintOf(c.fix))} :
       \E keep \in {{o \in OffsetsOf(text, snippet) : InBand(text, o, snippet, s, e)}} :
         keep # {} =>
           \E best \in keep :
             /\ \A o \in keep : MidDistance(text, best, snippet, s, e) <= MidDistance(text, o, snippet, s, e)
             /\ \A o \in keep : o < best =>
                   MidDistance(text, best, snippet, s, e) < MidDistance(text, o, snippet, s, e)
             /\ m.found
             /\ m.range = buildRangeFromIndex(text, best, snippet)

\* the global matcher has decided between two occurrences inside the band at
\* the same distance from the hint
C18_Witness ==
  \E i \in ExactCalls :
    LET c == calls[i]
        snippet == c.fix.expectedOriginalSnippet
        s == c.fix.startLine
        e == c.fix.endLine
    IN /\ c.plan.via = "global"
       /\ \E text \in {getText(c.seen)} :
            \E o1 \in OffsetsOf(text, snippet), o2 \in OffsetsOf(text, snippet) :
              /\ o1 < o2
              /\ LineOfOffset(text, o1) # LineOfOffset(text, o2)
              /\ MidDistance(text, o1, snippet, s, e) = MidDistance(text, o2, snippet, s, e)
              /\ \A o \in OffsetsOf(text, snippet) :
                    MidDistance(text, o1, snippet, s, e) <= MidDistance(text, o, snippet, s, e)
              /\ c.plan.range = buildRangeFromIndex(text, o1, snippet)

\* the global matcher has returned an occurrence that ends on the first line
\* of the band, 50 lines above the declared line
C18_WitnessBandEdge ==
  \E i \in ExactCalls :
    /\ calls[i].plan.via = "global"
    /\ calls[i].plan.range.endLine = calls[i].fix.startLine - 1 - ToleranceLines

\* the calls on a fix whose snippet occurs literally in the document, but
\* nowhere inside the band of 50 lines around the declared lines
OutOfBandCalls ==
  {i \in ExactCalls :
     \A text \in {getText(calls[i].seen)} :
       \A o \in OffsetsOf(text, calls[i].fix.expectedOriginalSnippet) :
         ~InBand(text, o, calls[i].fix.expectedOriginalSnippet,
                 calls[i].fix.startLine, calls[i].fix.endLine)}

\* C19: when the snippet occurs literally but no occurrence overlaps the
\* 50-line band around the hint, the global matcher reports no match.
C19_OutOfBandNoMatch ==
  \A i \in OutOfBandCalls :
    /\ ~findSnippetInDocument(calls[i].seen, calls[i].fix.expectedOriginalSnippet,
                              hintOf(calls[i].fix)).found
    /\ calls[i].plan.via \notin {"global", "normalized"}

\* the search has passed the windowed matcher and reached the global one
\* with the only occurrences 51 lines from the declared line
C19_Witness ==
  \E i \in OutOfBandCalls :
    /\ calls[i].plan.via # "windowed"
    /\ \E text \in {getText(calls[i].seen)} :
         \E o \in OffsetsOf(text, calls[i].fix.expectedOriginalSnippet) :
           Abs(LineOfOffset(text, o) - (calls[i].fix.startLine - 1)) = ToleranceLines + 1

\* the calls on a fix with a snippet that does not occur literally
InexactCalls == SnippetCalls \ ExactCalls

C20_WitnessTrailing ==
  \E i \in InexactCalls :
    \E m \in {findSnippetInDocument(calls[i].seen, calls[i].fix.expectedOriginalSnippet,
                                     hintOf(calls[i].fix))} :
      /\ m.found
      /\ m.range.endCol > Len(trimEnd(calls[i].seen.lines[m.range.endLine + 1]))

\* the lines of the window of n lines that starts at line l (0-based), as the
\* fuzzy matcher compares them
WindowLines(doc, l, n) == [k \in 1..n |-> trimEnd(doc.lines[l + k])]

\* the start lines of the windows of n lines inside the 200 lines around the
\* declared lines s..e
FuzzyStarts(doc, n, s, e) ==
  {l \in 0..(Len(doc.lines) - n) : s - 1 - 200 <= l /\ l + n - 1 <= e - 1 + 200}

\* the lines of the window that equal the snippet's line at the same index
ExactLines(expected, window) == {k \in 1..Len(expected) : expected[k] = window[k]}

\* n times the score in hundredths: exact/n, 0.15 for equal first lines, 0.15
\* for equal last lines, at most 1
ScoreTimesN(expected, window) ==
  LET n == Len(expected)
      sum == 100 * Cardinality(ExactLines(expected, window))
             + (IF 1 \in ExactLines(expected, window) THEN 15 * n ELSE 0)
             + (IF n \in ExactLines(expected, window) THEN 15 * n ELSE 0)
  IN IF sum > 100 * n THEN 100 * n ELSE sum

\* the minimum score in hundredths for a snippet of n lines
MinimumPct(n) == IF n <= 2 THEN 95 ELSE IF n <= 6 THEN 80 ELSE IF n <= 25 THEN 70 ELSE 65

Accepted(expected, window) ==
  ScoreTimesN(expected, window) >= MinimumPct(Len(expected)) * Len(expected)

\* C21: the fuzzy matcher finds a window exactly when some window inside its
\* range has a score min(1, exact/n + 0.15 + 0.15) of at least the minimum
\* for n lines (0.95, 0.80, 0.70, 0.65); the score it reports is the score
\* of the window it returns, within [0,1]; a 3-line snippet with 2 of 3
\* lines equal is returned only with a score of at least 0.80.
C21_ScoreAndThreshold ==
  \A i \in SnippetCalls :
    LET c == calls[i]
        doc == c.seen
        s == c.fix.startLine
        e == c.fix.endLine
    IN \E expected \in {splitLF(normalizeText(c.fix.expectedOriginalSnippet))} :
       \E m \in {findSnippetFuzzyNearLineHint(doc, c.fix.expectedOriginalSnippet, s, e)} :
         LET n == Len(expected)
         IN /\ m.found <=> \E l \in FuzzyStarts(doc, n, s, e) : Accepted(expected, WindowLines(doc, l, n))
            /\ m.found =>
                 \E w \in {WindowLines(doc, m.range.startLine, n)} :
                   /\ m.score = ScoreTimesN(expected, w)
                   /\ 0 <= m.score /\ m.score <= 100 * n
                   /\ Accepted(expected, w)
                   /\ (n = 3 /\ Cardinality(ExactLines(expected, w)) = 2) => m.score >= 80 * 3

\* applyFix has replaced a window that the fuzzy matcher accepted with some
\* lines different from the snippet's
C21_Witness ==
  \E i \in ApplyCalls :
    /\ calls[i].plan.via = "fuzzy"
    /\ calls[i].plan.edit
    /\ \E expected \in {splitLF(normalizeText(calls[i].fix.expectedOriginalSnippet))} :
         \E w \in {WindowLines(calls[i].seen, calls[i].plan.range.startLine, Len(expected))} :
           /\ Len(expected) = 3
           /\ Cardinality(ExactLines(expected, w)) = 2

\* the fuzzy matcher has rejected the only window of a 5-line snippet with a
\* score of 0.75
C21_WitnessRejected ==
  \E i \in ApplyCalls :
    /\ calls[i].pc = "done"
    /\ calls[i].reason = ReasonNotFound
    /\ \E expected \in {splitLF(normalizeText(calls[i].fix.expectedOriginalSnippet))} :
         /\ Len(expected) = 5
         /\ Len(calls[i].seen.lines) = 5
         /\ ScoreTimesN(expected, WindowLines(calls[i].seen, 0, 5)) = 75 * 5

\* twice the distance of the midpoint of the window of n lines at line l from
\* the midpoint of the declared lines s..e
WindowDistance(l, n, s, e) == Abs((l + (l + n - 1)) - ((s - 1) + (e - 1)))

\* C22: among the windows inside the 200 lines around the declared lines
\* that clear the minimum score, the fuzzy matcher returns the one with the
\* highest score, the nearest midpoint among those, and the lowest start line
\* among those; it returns null when no window clears the minimum.
C22_BestWindow ==
  \A i \in SnippetCalls :
    LET c == calls[i]
        doc == c.seen
        s == c.fix.startLine
        e == c.fix.endLine
    IN \E expected \in {splitLF(normalizeText(c.fix.expectedOriginalSnippet))} :
       \E m \in {findSnippetFuzzyNearLineHint(doc, c.fix.expectedOriginalSnippet, s, e)} :
         LET n == Len(expected)
             score(l) == ScoreTimesN(expected, WindowLines(doc, l, n))
         IN \E cands \in {{l \in FuzzyStarts(doc, n, s, e) : Accepted(expected, WindowLines(doc, l, n))}} :
              IF cands = {} THEN ~m.found
              ELSE \E best \in cands :
                     /\ \A l \in cands : score(best) >= score(l)
                     /\ \A l \in cands : score(l) = score(best) =>
                           WindowDistance(best, n, s, e) <= WindowDistance(l, n, s, e)
                     /\ \A l \in cands :
                           (score(l) = score(best)
                            /\ WindowDistance(l, n, s, e) = WindowDistance(best, n, s, e)) => best <= l
                     /\ m.found
                     /\ m.range = [startLine |-> best, startCol |-> 0, endLine |-> best + n - 1,
                                    endCol |-> Len(doc.lines[best + n])]

\* the text of the lines within 200 lines of the declared lines s..e, clamped
\* to the document; empty when no line of the document is that near
NearText(doc, s, e) ==
  LET lo == IF s - 1 - 200 > 0 THEN s - 1 - 200 ELSE 0
      hi == IF e - 1 + 200 < Len(doc.lines) - 1 THEN e - 1 + 200 ELSE Len(doc.lines) - 1
  IN IF lo > hi THEN <<>> ELSE TextOfLines(doc, lo, hi)

ContainsText(text, part) == indexOf(text, part, 0) # -1

\* the rule as stated: empty replacement, literal occurrence, normalized
\* occurrence in the document (no hint) or near the hint
AppliedAsStated(doc, replacement, hint) ==
  IF Len(replacement) = 0 THEN FALSE
  ELSE IF ContainsText(getText(doc), replacement) THEN TRUE
  ELSE IF ~hint.present
  THEN ContainsText(normalizeText(getText(doc)), normalizeText(replacement))
  ELSE ContainsText(normalizeText(NearText(doc, hint.startLine, hint.endLine)),
                    normalizeText(replacement))

\* the rule with the replacement that is blank after normalization
AppliedAmended(doc, replacement, hint) ==
  IF Len(replacement) = 0 THEN FALSE
  ELSE IF ContainsText(getText(doc), replacement) THEN TRUE
  ELSE IF Len(normalizeText(replacement)) = 0 THEN FALSE
  ELSE AppliedAsStated(doc, replacement, hint)

\* the calls of applyFix that have opened their document
OpenedCalls == {i \in ApplyCalls : calls[i].opened}

\* C23 (as stated): the already-applied detector returns false for an empty
\* replacement, true for a literal occurrence, and otherwise whether the
\* normalized replacement occurs in the normalized document (no hint) or in
\* the normalized text of the lines within 200 lines of the hint.
C23_AsStated ==
  \A i \in OpenedCalls :
    /\ hasReplacementAlreadyApplied(calls[i].seen, calls[i].fix.replacement, hintOf(calls[i].fix))
         = AppliedAsStated(calls[i].seen, calls[i].fix.replacement, hintOf(calls[i].fix))
    /\ hasReplacementAlreadyApplied(calls[i].seen, calls[i].fix.replacement, NoHint)
         = AppliedAsStated(calls[i].seen, calls[i].fix.replacement, NoHint)

\* C23 (amended): as stated, except that a replacement which does not occur
\* literally and is empty after normalization (blanks only) is never
\* detected; and applyFix reports "already applied" exactly when the
\* detector, given the hint, returns true after every matcher has failed.
C23_AlreadyApplied ==
  \A i \in OpenedCalls :
    /\ hasReplacementAlreadyApplied(calls[i].seen, calls[i].fix.replacement, hintOf(calls[i].fix))
         = AppliedAmended(calls[i].seen, calls[i].fix.replacement, hintOf(calls[i].fix))
    /\ hasReplacementAlreadyApplied(calls[i].seen, calls[i].fix.replacement, NoHint)
         = AppliedAmended(calls[i].seen, calls[i].fix.replacement, NoHint)
    /\ (hasSnippet(calls[i].fix) /\ ~calls[i].plan.edit) =>
         ((calls[i].plan.reason = ReasonAlready)
            <=> AppliedAmended(calls[i].seen, calls[i].fix.replacement, hintOf(calls[i].fix)))

\* applyFix has reported "already applied" for a replacement that occurs
\* after normalization only, on a line 200 lines from the declared line
C23_Witness ==
  \E i \in OpenedCalls :
    /\ calls[i].pc = "done"
    /\ calls[i].reason = ReasonAlready
    /\ ~ContainsText(getText(calls[i].seen), calls[i].fix.replacement)
    /\ \E l \in 1..Len(calls[i].seen.lines) :
         /\ calls[i].seen.lines[l] = LineB
         /\ Abs(l - calls[i].fix.startLine) = AppliedRadius

\* the replacement occurs after normalization only, 201 lines from the
\* declared line, and applyFix has reported that the snippet was not found
C23_WitnessOutside ==
  \E i \in OpenedCalls :
    /\ calls[i].pc = "done"
    /\ calls[i].reason = ReasonNotFound
    /\ \E l \in 1..Len(calls[i].seen.lines) :
         /\ calls[i].seen.lines[l] = LineB
         /\ Abs(l - calls[i].fix.startLine) = AppliedRadius + 1

\* the range covers whole lines, as many as the snippet has after
\* normalization
WholeLinesOfSnippet(doc, range, snippet) ==
  /\ range.startCol = 0
  /\ range.endCol = Len(doc.lines[range.endLine + 1])
  /\ range.endLine - range.startLine + 1 = Len(splitLF(normalizeText(snippet)))

C24_Step ==
  \A i \in 1..Len(calls) : (Commits(i) /\ hasSnippet(calls[i].fix)) =>
    LET c == calls[i]
        doc == docs[c.fix.filePath]
        snippet == c.fix.expectedOriginalSnippet
    IN /\ c.plan.via \in {"windowed", "global", "normalized", "fuzzy"}
       /\ c.plan.via \in {"windowed", "global", "normalized"} =>
            normalizeText(getTextRange(doc, c.plan.range)) = normalizeText(snippet)
       /\ c.plan.via = "fuzzy" => WholeLinesOfSnippet(doc, c.plan.range, snippet)

C24_WitnessFuzzy ==
  \E i \in SnippetCalls : calls[i].edits = 1 /\ calls[i].plan.via = "fuzzy"

C24_WitnessNormalized ==
  \E i \in SnippetCalls : calls[i].edits = 1 /\ calls[i].plan.via = "normalized"

\* C25: an edit committed for a fix with a non-empty snippet replaces a range
\* that meets the lines startLine-1-200 .. endLine-1+200; a region that lies
\* wholly more than 200 lines from the declared lines is never replaced,
\* also when the snippet occurs literally there.
C25_Within200Lines ==
  \A i \in SnippetCalls :
    calls[i].plan.edit =>
      /\ calls[i].plan.range.endLine >= calls[i].fix.startLine - 1 - 200
      /\ calls[i].plan.range.startLine <= calls[i].fix.endLine - 1 + 200
      /\ calls[i].plan.range.startLine <= calls[i].plan.range.endLine

\* an edit has been committed 200 lines from the declared line, in a
\* document where the snippet also occurs 201 lines away
C25_Witness ==
  \E i \in SnippetCalls :
    /\ calls[i].edits = 1
    /\ Abs(calls[i].plan.range.startLine - (calls[i].fix.startLine - 1)) = 200
    /\ \E l \in 1..Len(calls[i].seen.lines) :
         /\ calls[i].seen.lines[l] = calls[i].fix.expectedOriginalSnippet
         /\ Abs(l - calls[i].fix.startLine) = 201

\* the snippet occurs literally 201 lines from the declared line and nowhere
\* nearer, and applyFix has returned without an edit
C25_WitnessRefused ==
  \E i \in SnippetCalls :
    /\ calls[i].pc = "done"
    /\ ~calls[i].plan.edit
    /\ \A l \in 1..Len(calls[i].seen.lines) :
         calls[i].seen.lines[l] = calls[i].fix.expectedOriginalSnippet
           => Abs(l - calls[i].fix.startLine) = 201
    /\ \E l \in 1..Len(calls[i].seen.lines) :
         calls[i].seen.lines[l] = calls[i].fix.expectedOriginalSnippet

\* the fix carries a string of at least one character as its snippet
NonEmptySnippet(fix) == fix.snippetPresent /\ fix.expectedOriginalSnippet # <<>>

\* the offsets the loop has visited: one per turn
LoopOffsets(text, snippet) == collectExact(text, snippet, indexOf(text, snippet, 0))

\* C26: for a non-empty snippet the loop over the literal occurrences visits
\* strictly increasing offsets of occurrences and stops after at most one
\* turn per character, when no occurrence is left; with an empty string (or
\* null) as snippet no matcher runs: applyFix takes the line-range path and
\* canApplyFix returns true without opening the document; with any other
\* snippet the matchers run.
C26_LoopTerminates ==
  /\ \A i \in OpenedCalls :
        IF NonEmptySnippet(calls[i].fix)
        THEN /\ calls[i].plan.via # "lines"
             /\ calls[i].plan.reason # ReasonBounds
             /\ calls[i].plan.trace # <<>>
             /\ \E text \in {getText(calls[i].seen)} :
                  \E offs \in {LoopOffsets(text, calls[i].fix.expectedOriginalSnippet)} :
                    /\ Len(offs) <= Len(text)
                    /\ \A k \in 1..Len(offs) :
                          Occurs(text, calls[i].fix.expectedOriginalSnippet, offs[k])
                    /\ \A k \in 1..(Len(offs) - 1) : offs[k] < offs[k + 1]
                    /\ \A o \in 0..Len(text) :
                          Occurs(text, calls[i].fix.expectedOriginalSnippet, o)
                            => \E k \in 1..Len(offs) : offs[k] = o
        ELSE /\ calls[i].plan.trace = <<>>
             /\ calls[i].plan.via = "lines" \/ calls[i].plan.reason = ReasonBounds
  /\ \A i \in CanApplyCalls :
        ~NonEmptySnippet(calls[i].fix) =>
          calls[i].pc = "done" /\ calls[i].value /\ ~calls[i].opened

\* applyFix on a fix whose snippet is the empty string has committed an edit
\* of the declared lines, and canApplyFix has returned true for the same fix
C26_Witness ==
  /\ \E i \in ApplyCalls :
       /\ calls[i].fix.snippetPresent
       /\ calls[i].fix.expectedOriginalSnippet = <<>>
       /\ calls[i].plan.via = "lines"
       /\ calls[i].edits = 1
  /\ \E i \in CanApplyCalls :
       /\ calls[i].fix.snippetPresent
       /\ calls[i].fix.expectedOriginalSnippet = <<>>
       /\ calls[i].value

\* the loop has run over a text with overlapping occurrences
C26_WitnessLoop ==
  \E i \in OpenedCalls :
    /\ NonEmptySnippet(calls[i].fix)
    /\ \E offs \in {LoopOffsets(getText(calls[i].seen), calls[i].fix.expectedOriginalSnippet)} :
         \E k \in 1..(Len(offs) - 1) : offs[k + 1] = offs[k] + 1

\* Inputs: the long documents with the snippet as a whole line at the ends of
\* the radii, and the documents of the fuzzy thresholds
InitShort == InitFarOnly \/ InitFuzzy

SpecShort == InitShort /\ [][Next]_vars

\* the calls on a fix whose snippet has one or two lines after normalization
ShortCalls ==
  {i \in SnippetCalls : Len(splitLF(normalizeText(calls[i].fix.expectedOriginalSnippet))) <= 2}

\* C27: for a snippet of one or two lines, a window with a line different
\* from the snippet's scores at most 0.65 and is not accepted; the fuzzy
\* matcher returns only a window within 200 lines of the hint whose every
\* line equals the snippet's, with score 1: one that equals the snippet after
\* normalization.
C27_ShortSnippetsExact ==
  \A i \in ShortCalls :
    LET c == calls[i]
        doc == c.seen
        s == c.fix.startLine
        e == c.fix.endLine
    IN \E expected \in {splitLF(normalizeText(c.fix.expectedOriginalSnippet))} :
       \E m \in {findSnippetFuzzyNearLineHint(doc, c.fix.expectedOriginalSnippet, s, e)} :
         LET n == Len(expected)
         IN /\ \A l \in 0..(Len(doc.lines) - n) :
                 \E w \in {WindowLines(doc, l, n)} :
                   w # expected =>
                     /\ ScoreTimesN(expected, w) <= 65 * n
                     /\ ~Accepted(expected, w)
                     /\ m.found => m.range.startLine # l
            /\ m.found =>
                 /\ WindowLines(doc, m.range.startLine, n) = expected
                 /\ m.score = 100 * n
                 /\ m.range.startLine >= s - 1 - 200
                 /\ m.range.endLine <= e - 1 + 200
                 /\ normalizeText(m.matchedText) = normalizeText(c.fix.expectedOriginalSnippet)
            /\ c.plan.via = "fuzzy" => c.plan.range = m.range

\* the fuzzy matcher has found the one-line snippet as a whole line more than
\* 100 lines from the declared line, and the edit has been committed there
C27_Witness ==
  \E i \in ShortCalls :
    /\ calls[i].plan.via = "fuzzy"
    /\ calls[i].edits = 1
    /\ Abs(calls[i].plan.range.startLine - (calls[i].fix.startLine - 1)) > WindowRadius

\* the fuzzy matcher has run on a two-line snippet and a window with one
\* equal line, and nothing was found
C27_WitnessRejected ==
  \E i \in ShortCalls :
    /\ calls[i].pc = "done"
    /\ calls[i].reason = ReasonNotFound
    /\ \E expected \in {splitLF(normalizeText(calls[i].fix.expectedOriginalSnippet))} :
         /\ Len(expected) = 2
         /\ \E l \in 0..(Len(calls[i].seen.lines) - 2) :
              ScoreTimesN(expected, WindowLines(calls[i].seen, l, 2)) = 65 * 2

\* C28: when canApplyFix has returned true for a fix, with or without a
\* snippet, applyFix of that fix on the same document, the store accepting
\* the edit, returns applied = true.
C28_PreflightSound ==
  \A i \in CanApplyCalls :
    (calls[i].pc = "done" /\ calls[i].value) =>
      runApplyFix(calls[i].before, calls[i].fix).applied

\* the same for the fixes that carry a snippet
C28_PreflightSoundWithSnippet ==
  \A i \in CanApplyCalls :
    (calls[i].pc = "done" /\ calls[i].value /\ hasSnippet(calls[i].fix)) =>
      runApplyFix(calls[i].before, calls[i].fix).applied

(***************************************************************************)
(* The review panel with progress: openTextDocument, applyEdit and         *)
(* showTextDocument of a call in flight each settle, one way or the other. *)
(***************************************************************************)
CallSettles(i) ==
  /\ i \in 1..Len(calls)
  /\ (ApplyFixOpened(i) \/ ApplyFixEdited(i) \/ ApplyFixShown(i))

SpecPanelLive ==
  /\ InitPanel
  /\ [][NextPanel]_vars
  /\ \A i \in 1..MaxCalls : WF_vars(CallSettles(i))

\* the i-th applyFix message of the web view has been sent
Requested(i) == i <= Len(calls)

\* handleApplyFix has posted fixApplied or fixFailed for the i-th message:
\* applyFix has returned a result
Answered(i) == i <= Len(calls) /\ calls[i].pc = "done"

\* no second request for a fix while one is unanswered, and none after
\* fixApplied
OneRequestAtATime ==
  \A k \in 1..Len(fixes) :
    /\ Cardinality({i \in CallsOfFix(k) : ~Answered(i)}) <= 1
    /\ \A i \in CallsOfFix(k), j \in CallsOfFix(k) :
         (i < j) => (Answered(i) /\ ~calls[i].applied)

\* C29: every applyFix request of the web view is eventually answered with
\* fixApplied or fixFailed; between a request and its answer, and after
\* fixApplied, the web view sends no further request for the same fix.
C29_EveryRequestAnswered ==
  /\ \A i \in 1..MaxCalls : Requested(i) ~> Answered(i)
  /\ []OneRequestAtATime

\* the second half of C29 on its own
C29_OneRequestAtATime == []OneRequestAtATime

\* every request is answered unless applyFix throws
C29_AnsweredUnlessThrown ==
  \A i \in 1..MaxCalls :
    Requested(i) ~> (Answered(i) \/ (i <= Len(calls) /\ calls[i].pc = "thrown"))

(***************************************************************************)
(* The review panel shown again with a new review output                   *)
(* (src/src/views/ReviewPanel.ts, createOrShow and update).  update()      *)
(* replaces lastOutput at once; the web view goes on showing the page of   *)
(* the previous output until update() has assigned the new HTML and the    *)
(* web view has loaded it.  A click posts a message that carries only the  *)
(* id of the fix; the panel handles it in a later task.  The variable      *)
(* fixes is lastOutput.fixes; panel.html is the list of fixes whose cards  *)
(* the web view shows, panel.gen the number of the output they belong to.  *)
(* A request keeps the card that was clicked (clicked) next to the fix     *)
(* the panel found (fix).                                                  *)
(***************************************************************************)
MaxUpdates == 1

\* FixSchema: the fields of Fix and the id, any non-empty string of the
\* model's output
IdFix(id, f) ==
  [id |-> id, filePath |-> f.filePath, startLine |-> f.startLine, endLine |-> f.endLine,
   replacement |-> f.replacement, snippetPresent |-> f.snippetPresent,
   expectedOriginalSnippet |-> f.expectedOriginalSnippet]

\* this.lastOutput?.fixes.find((f) => f.id === fixId): the position of the
\* first fix with the id, 0 for undefined
findFix(list, fixId) ==
  IF \E k \in 1..Len(list) : list[k].id = fixId
  THEN CHOOSE k \in 1..Len(list) :
         list[k].id = fixId /\ \A j \in 1..(k - 1) : list[j].id # fixId
  ELSE 0

\* the ids a review gives its fixes
FixIds == <<"fix-1", "fix-2">>

FixOfA == Fix("f1", 1, 1, <<"c">>, TRUE, <<"a">>)
FixOfB == Fix("f1", 2, 2, <<"d">>, TRUE, <<"b">>)
FixOfOther == Fix("f2", 2, 2, <<"d">>, FALSE, <<>>)

\* the review outputs: one fix each, numbered fix-1 or fix-2
ReviewOutputs ==
  {<<IdFix(FixIds[1], FixOfA)>>,
   <<IdFix(FixIds[1], FixOfB)>>,
   <<IdFix(FixIds[2], FixOfOther)>>}

\* createOrShow(extensionUri, output) with the panel open: update(output) up
\* to the await of marked
PanelUpdate(output) ==
  /\ panel.updates < MaxUpdates + 1
  /\ fixes' = output
  /\ panel' = [panel EXCEPT !.updates = @ + 1,
                            !.rendering = Append(@, [n |-> panel.updates + 1, fixes |-> output])]
  /\ UNCHANGED <<docs, doc0, calls>>

\* update(output) after the await: the HTML of the output is assigned and
\* the web view shows its cards, every button enabled
PanelRendered ==
  /\ panel.rendering # <<>>
  /\ panel' = [panel EXCEPT !.rendering = Tail(@),
                            !.gen = Head(panel.rendering).n,
                            !.html = Head(panel.rendering).fixes]
  /\ UNCHANGED <<docs, doc0, fixes, calls>>

\* the Apply button of the card with the id is disabled or its fix is in
\* appliedFixes: a click of this page on it is not answered by fixFailed,
\* or a fixApplied message named the id
ButtonOff(id) ==
  \/ \E j \in 1..Len(panel.inbox) :
       panel.inbox[j].gen = panel.gen /\ panel.inbox[j].fixId = id
  \/ \E i \in 1..Len(calls) :
       /\ calls[i].clicked.id = id
       /\ \/ calls[i].gen = panel.gen /\ ~(calls[i].pc = "done" /\ ~calls[i].applied)
          \/ calls[i].pc = "done" /\ calls[i].applied

\* the click handler of the web view on card k of the page it shows
WebviewClick(k) ==
  /\ k \in 1..Len(panel.html)
  /\ ~ButtonOff(panel.html[k].id)
  /\ panel' = [panel EXCEPT !.inbox =
       Append(@, [fixId |-> panel.html[k].id, gen |-> panel.gen, clicked |-> panel.html[k]])]
  /\ UNCHANGED <<docs, doc0, fixes, calls>>

\* onDidReceiveMessage for the oldest applyFix message: handleApplyFix up to
\* the await of openTextDocument inside applyFix, or up to the fixFailed
\* message when no fix of lastOutput has the id
PanelReceive ==
  /\ panel.inbox # <<>>
  /\ \E m \in {Head(panel.inbox)} : \E k \in {findFix(fixes, m.fixId)} :
       IF panel.updates = 0 \/ k = 0
       THEN calls' = calls
       ELSE /\ Len(calls) < MaxCalls
            /\ \E folderOpen \in BOOLEAN :
                 LET c == [clicked |-> m.clicked, gen |-> m.gen, output |-> panel.updates]
                            @@ NewCall("applyFix", fixes[k])
                 IN calls' = Append(calls,
                      IF toAbsoluteUri(folderOpen, fixes[k].filePath).threw
                      THEN [c EXCEPT !.pc = "thrown", !.error = ErrNoWorkspace]
                      ELSE c)
  /\ panel' = [panel EXCEPT !.inbox = Tail(@)]
  /\ UNCHANGED <<docs, doc0, fixes>>

NextUpdate ==
  \/ \E output \in ReviewOutputs : PanelUpdate(output)
  \/ PanelRendered
  \/ \E k \in 1..Len(panel.html) : WebviewClick(k)
  \/ PanelReceive
  \/ \E i \in 1..Len(calls) : ApplyFixOpened(i)
  \/ \E i \in 1..Len(calls) : ApplyFixEdited(i)
  \/ \E i \in 1..Len(calls) : ApplyFixShown(i)

\* the panel right after createOrShow made it: lastOutput is set and the
\* first update() is suspended
InitUpdate ==
  /\ docs = [f \in Files |-> Doc(<<LineA, LineB>>, EolLF)]
  /\ doc0 = docs
  /\ \E output \in ReviewOutputs :
       /\ fixes = output
       /\ panel = [updates |-> 1, rendering |-> <<[n |-> 1, fixes |-> output]>>,
                   gen |-> 0, html |-> <<>>, inbox |-> <<>>]
  /\ calls = <<>>

SpecUpdate == InitUpdate /\ [][NextUpdate]_vars

\* the requests the panel passed to applyFix
PanelCalls == {i \in 1..Len(calls) : calls[i].kind = "applyFix"}

\* C30: the fix the panel applies for a click is the fix whose card the web
\* view showed under the id when the user clicked; no fix of a newer output
\* is applied for a click on a card of the older one
C30_ClickedFixApplied ==
  \A i \in PanelCalls :
    (calls[i].pc = "done" /\ calls[i].applied) => calls[i].fix = calls[i].clicked

\* the fix the panel passes to applyFix has the id of the clicked card
C30_ClickedIdFound ==
  \A i \in PanelCalls : calls[i].fix.id = calls[i].clicked.id

\* the panel passes another fix than the clicked one only when lastOutput
\* was replaced after the clicked page was rendered
C30_OnlyAcrossUpdate ==
  \A i \in PanelCalls :
    (calls[i].fix # calls[i].clicked) => calls[i].gen < calls[i].output

\* a click on the page of the current output is served with the clicked fix
C30_Witness ==
  \E i \in PanelCalls :
    /\ calls[i].pc = "done" /\ calls[i].applied
    /\ calls[i].gen = calls[i].output
    /\ calls[i].fix = calls[i].clicked

====
